---- MODULE Spec2Model ----
(***************************************************************************)
(* WealthMap web client: the Goals planning board (drag and drop, refetch  *)
(* and analysis, filters, drag preview) and the Simulation page's fan      *)
(* chart transform, as state machines over the components' React state,    *)
(* the backend's goal collection and the requests in flight.               *)
(***************************************************************************)
EXTENDS Integers, Sequences, FiniteSets, TLC

VARIABLES
    \* Goals component state
    goals, analysis, loading, error, annualIncome, filterType,
    activeId, activeGoal, currentOverYear,
    isModalOpen, editingGoal, goalName, goalAmount, targetAge, activeTab,
    \* environment of the Goals component
    tz,          \* the browser's zone offset from UTC, in hours
    dbGoals,     \* the backend's goal collection
    nextId,      \* the id the backend gives the next created goal
    tasks,       \* the suspended async handlers, oldest first
    dndActive,   \* the drag session of the drag-and-drop context
    event,       \* the handler or continuation that ran last
    ops,         \* the mutation requests issued so far
    dbFinance,   \* the backend's asset, income and expense collections
    budget,      \* the mutation requests a behaviour may issue
    \* Simulation component state
    results, simLoading, simTasks,
    params,      \* the parameters of the simulation form
    fillTasks,   \* the auto-fill handlers suspended at their await, oldest first
    fills,       \* the clicks on the auto-fill buttons so far
    \* the route shown: the one page that is mounted
    page,
    \* Assets component state (loading and editingId are assetLoading and
    \* assetEditingId)
    assets, newAsset, assetEditingId, previewData, assetLoading, previewLoading,
    \* environment of the Assets component
    dbAssets,          \* the backend's asset collection
    timers,            \* the pending timers of setTimeout, oldest first
    timeoutId,         \* the timer the cleanup of the preview effect clears
    sinceChange,       \* ticks since the preview effect last ran, up to the delay
    reqsSinceChange,   \* preview requests issued since the effect last ran
    burst,             \* the effect last ran while its earlier timer was pending
    \* Liabilities component state (loading and editingId are liabLoading and
    \* liabEditingId) and the backend's liability collection
    liabilities, newLiability, liabLoading, liabEditingId, dbLiabilities,
    \* Budget component state (goals and loading are budgetGoals and
    \* budgetLoading) and the backend's income and expense collections
    incomes, expenses, budgetGoals, newItem, newGoal, budgetLoading, dbBudget,
    \* Dashboard component state (assets, liabilities and loading)
    dashAssets, dashLiabilities, dashLoading

goalsState == <<goals, analysis, loading, error, annualIncome, filterType>>
dragState == <<activeId, activeGoal, currentOverYear>>
formState == <<isModalOpen, editingGoal, goalName, goalAmount, targetAge, activeTab>>
envState == <<tz, dbGoals, nextId, tasks, dndActive, event, ops, dbFinance, budget>>
simFill == <<params, fillTasks, fills>>
simState == <<results, simLoading, simTasks, simFill>>
assetForm == <<newAsset, timers, timeoutId, sinceChange, reqsSinceChange, burst>>
assetsPage ==
    <<assets, assetForm, assetEditingId, previewData, assetLoading, previewLoading, dbAssets>>
liabPage == <<liabilities, newLiability, liabLoading, liabEditingId, dbLiabilities>>
budgetPage == <<incomes, expenses, budgetGoals, newItem, newGoal, budgetLoading, dbBudget>>
dashPage == <<dashAssets, dashLiabilities, dashLoading>>
pagesState == <<page, assetsPage, liabPage, budgetPage, dashPage>>
goalsPage == <<goalsState, dragState, formState, tz, dbGoals, nextId, dndActive, dbFinance>>
vars == <<goalsState, dragState, formState, envState, simState, pagesState>>
envVarsButEvent == <<tz, dbGoals, nextId, tasks, dndActive, ops, dbFinance, budget>>

----------------------------------------------------------------------------
(* Bounds of the model *)

\* mutation requests (drop, save, delete) one behaviour issues; the behaviours
\* of overlapping requests (SpecRace) issue one more
MaxOps == 1
\* goals the backend ever holds (ids 1..MaxGoals)
MaxGoals == 2
\* the drop targets offered are the slots of currentYear .. currentYear + MaxDragSpan
MaxDragSpan == 1
\* years of a simulation result
MaxSimYears == 2
\* the slots the pointer hovers over reach this many years ahead
MaxViewSpan == 2
\* clock ticks the debounce delay of 500 ms lasts
DebounceTicks == 2
\* preview requests in flight at a time
MaxPreviews == 2
\* rows the backend ever holds in a collection of assets, liabilities, incomes
\* or expenses
MaxRecords == 2
\* assets of a list whose totals are shown
MaxListed == 3
\* the clicks on the auto-fill buttons in a behaviour
MaxFills == 2

\* zone offsets the browser may run in (New York, Taipei)
TimeZones == {0 - 5, 8}

----------------------------------------------------------------------------
(* Values *)

null == <<>>
Some(x) == <<x>>
Val(o) == o[1]

Max(a, b) == IF a >= b THEN a ELSE b
Abs(a) == IF a < 0 THEN 0 - a ELSE a

RECURSIVE SumSeq(_)
SumSeq(s) == IF s = <<>> THEN 0 ELSE Head(s) + SumSeq(Tail(s))

\* indices of s whose element satisfies Test
Indices(s, Test(_)) == {i \in 1..Len(s) : Test(s[i])}

\* Array.prototype.find: the first element satisfying Test, or null
Find(s, Test(_)) ==
    LET hits == Indices(s, Test)
    IN IF hits = {} THEN null
       ELSE Some(s[CHOOSE i \in hits : \A j \in hits : i <= j])

\* s without its i-th element
RemoveAt(s, i) == SubSeq(s, 1, i - 1) \o SubSeq(s, i + 1, Len(s))

----------------------------------------------------------------------------
(* Numbers typed into inputs: a string of decimal digits is a sequence of   *)
(* digits, the empty string the empty sequence.                            *)

RECURSIVE toString(_)
toString(n) == IF n < 10 THEN <<n>> ELSE toString(n \div 10) \o <<n % 10>>

RECURSIVE parseDigits(_, _)
parseDigits(s, acc) ==
    IF s = <<>> THEN acc ELSE parseDigits(Tail(s), acc * 10 + Head(s))

parseInt(s) == parseDigits(s, 0)
parseFloat(s) == parseDigits(s, 0)

----------------------------------------------------------------------------
(* Dates. An ISO string names an instant by its UTC year, month, day and   *)
(* hour; Date reads and builds it in the browser's zone.                   *)

Instant(y, m, d, h) == [y |-> y, m |-> m, d |-> d, h |-> h]

IsLeap(y) == (y % 4 = 0 /\ y % 100 # 0) \/ y % 400 = 0

DaysIn(y, m) ==
    IF m = 2 THEN (IF IsLeap(y) THEN 29 ELSE 28)
    ELSE IF m \in {4, 6, 9, 11} THEN 30 ELSE 31

\* the wall-clock components of instant t in a zone off hours ahead of t's
Shift(t, off) ==
    LET h2 == t.h + off
    IN IF h2 >= 24 THEN
            IF t.d < DaysIn(t.y, t.m) THEN Instant(t.y, t.m, t.d + 1, h2 - 24)
            ELSE IF t.m < 12 THEN Instant(t.y, t.m + 1, 1, h2 - 24)
            ELSE Instant(t.y + 1, 1, 1, h2 - 24)
       ELSE IF h2 < 0 THEN
            IF t.d > 1 THEN Instant(t.y, t.m, t.d - 1, h2 + 24)
            ELSE IF t.m > 1 THEN Instant(t.y, t.m - 1, DaysIn(t.y, t.m - 1), h2 + 24)
            ELSE Instant(t.y - 1, 12, 31, h2 + 24)
       ELSE Instant(t.y, t.m, t.d, h2)

\* new Date(iso).getFullYear()
getFullYear(iso, off) == Shift(iso, off).y

\* new Date(year, 0, 1).toISOString()
NewYearISO(year, off) == Shift(Instant(year, 1, 1, 0), 0 - off)


----------------------------------------------------------------------------
(* The Goals component: constants and values *)

currentAge == 30
maxAge == 95
\* new Date().getFullYear()
currentYear == 2026
\* the years of the budget forecast
ForecastYears == 10

ErrorMessage == "cannot connect to the server"

Tabs == {"lump_sum", "cash_flow"}
FilterTypes == {"all", "high_impact", "at_risk"}

Goal(id, name, amount, date, type, image) ==
    [id |-> id, name |-> name, amount |-> amount, target_date |-> date,
     goal_type |-> type, image_url |-> image]

\* the goal collections the backend may hold when the page is opened
Goal1 == Goal(1, "House", 40000, Instant(currentYear + 2, 6, 15, 0), "lump_sum", "house.png")
Goal2 == Goal(2, "Retire", 30000, Instant(currentYear + 1, 1, 1, 0), "cash_flow", "")
InitialDbs == {<<>>, <<Goal1>>, <<Goal1, Goal2>>}

\* what the user types into the goal form
NameInputs == {"Trip"}
AmountInputs == {toString(30000)}
AgeInputs == {toString(currentAge + 1)}

\* the asset, income and expense collections a refetch may read
Finance(a, i, e) == [assets |-> a, incomes |-> i, expenses |-> e]
Finance1 == Finance(<<300, 200>>, <<3000, 2000>>, <<2000>>)

GoalIds == 1..MaxGoals

\* a suspended async handler: the handler, the await it is suspended at, why
\* it was started, the request awaited and the response the server has ready
Task(h, pc, cause, req, res) == [h |-> h, pc |-> pc, cause |-> cause, req |-> req, res |-> res]

Ev(h, x, y) == [h |-> h, x |-> x, y |-> y]

----------------------------------------------------------------------------
(* The backend, as its REST interface describes it *)

\* PUT /finance/goals/:id
PutGoalRecord(g, body) ==
    Goal(g.id, body.name, body.amount, body.target_date, body.goal_type,
         IF "image_url" \in DOMAIN body THEN body.image_url ELSE g.image_url)

RECURSIVE PutGoal(_, _, _)
PutGoal(db, id, body) ==
    IF db = <<>> THEN <<>>
    ELSE <<IF Head(db).id = id THEN PutGoalRecord(Head(db), body) ELSE Head(db)>>
         \o PutGoal(Tail(db), id, body)

\* POST /finance/goals
PostGoal(db, id, body) ==
    Append(db, Goal(id, body.name, body.amount, body.target_date,
                    IF "goal_type" \in DOMAIN body THEN body.goal_type ELSE "lump_sum", ""))

\* DELETE /finance/goals/:id
DeleteGoal(db, id) == SelectSeq(db, LAMBDA g : g.id # id)

HasGoal(db, id) == \E i \in 1..Len(db) : db[i].id = id

\* POST /simulation/goals_check: one entry per submitted goal; the later the
\* target, the likelier the goal
Probability(g) == IF g.target_date.y > currentYear + 1 THEN 50 ELSE 40

GoalAnalysis(g) ==
    [goal_id |-> g.id, probability |-> Probability(g), progress_ratio |-> Probability(g),
     status |-> IF Probability(g) < 50 THEN "At Risk" ELSE "On Track"]

RECURSIVE GoalsCheck(_)
GoalsCheck(gs) ==
    IF gs = <<>> THEN <<>> ELSE <<GoalAnalysis(Head(gs))>> \o GoalsCheck(Tail(gs))

----------------------------------------------------------------------------
(* Exact fractions <<numerator, denominator>>, denominator positive *)

FracSub(a, b) == <<a[1] * b[2] - b[1] * a[2], a[2] * b[2]>>
FracGt(a, b) == a[1] * b[2] > b[1] * a[2]
FracEq(a, b) == a[1] * b[2] = b[1] * a[2]
\* Math.round: the nearest integer, halves towards plus infinity
MathRound(a) == (2 * a[1] + a[2]) \div (2 * a[2])

----------------------------------------------------------------------------
(* The Goals component: what it renders *)

\* the board: the loading and the error screens replace it
BoardShown == ~loading /\ error = null

\* timelineSlots stopping one short of the maximum age
timelineSlotsShort ==
    [i \in 1..(maxAge - currentAge) |->
        [age |-> currentAge + (i - 1), year |-> currentYear + (i - 1)]]

\* the slots of the timeline, lines 397-401
timelineSlots ==
    [i \in 1..(maxAge - currentAge + 1) |->
        [age |-> currentAge + (i - 1), year |-> currentYear + (i - 1)]]

SlotYears == {timelineSlots[i].year : i \in DOMAIN timelineSlots}

\* the slots the model's pointer is dropped on
DropYears == {y \in SlotYears : y <= currentYear + MaxDragSpan}

AnalysisOf(an, id) ==
    IF id \in DOMAIN an THEN an[id] ELSE [probability |-> 0, progress_ratio |-> 0]

\* PassesFilter dividing by the income as it is: by zero the ratio is Infinity
PassesFilterUnguarded(g, an, income, ft) ==
    IF ft = "all" THEN TRUE
    ELSE LET gAnalysis == AnalysisOf(an, g.id)
             ratio == IF income > 0 THEN <<g.amount, income>>
                      ELSE IF g.amount > 0 THEN <<1, 1>> ELSE <<0, 1>>
         IN IF ft = "high_impact" THEN FracGt(ratio, <<1, 2>>)
            ELSE IF ft = "at_risk" THEN gAnalysis.probability < 50
            ELSE TRUE

\* the predicate of filteredGoals
PassesFilter(g, an, income, ft) ==
    IF ft = "all" THEN TRUE
    ELSE LET gAnalysis == AnalysisOf(an, g.id)
             ratio == IF income > 0 THEN <<g.amount, income>> ELSE <<0, 1>>
         IN IF ft = "high_impact" THEN FracGt(ratio, <<1, 2>>)
            ELSE IF ft = "at_risk" THEN gAnalysis.probability < 50
            ELSE TRUE

filteredGoals == SelectSeq(goals, LAMBDA g : PassesFilter(g, analysis, annualIncome, filterType))

\* the cards of the slot of a year
slotGoals(year) == SelectSeq(filteredGoals, LAMBDA g : getFullYear(g.target_date, tz) = year)

\* the goals that have a card on the board
Cards == {g \in {filteredGoals[i] : i \in 1..Len(filteredGoals)} :
            getFullYear(g.target_date, tz) \in SlotYears}

\* YearsLeft counting the current year as one of the years left
YearsLeftInclusive(year) == Max(1, year - currentYear + 1)

\* Math.max(1, year - currentYear)
YearsLeft(year) == Max(1, year - currentYear)

\* the feedback tooltip of the drag overlay
Tooltip(goal, overYear, off) ==
    LET oldYear == getFullYear(goal.target_date, off)
        diff == overYear - oldYear
        oldYearsLeft == YearsLeft(oldYear)
        newYearsLeft == YearsLeft(overYear)
        amount == goal.amount
        oldMonthly == <<amount, oldYearsLeft * 12>>
        newMonthly == <<amount, newYearsLeft * 12>>
        monthlyDiff == FracSub(newMonthly, oldMonthly)
    IN [oldYear |-> oldYear, newYear |-> overYear,
        age |-> currentAge + (overYear - currentYear),
        oldYearsLeft |-> oldYearsLeft, newYearsLeft |-> newYearsLeft,
        oldMonthly |-> oldMonthly, newMonthly |-> newMonthly,
        monthlyDiff |-> monthlyDiff,
        deltaShown |-> diff # 0,
        label |-> IF FracGt(monthlyDiff, <<0, 1>>) THEN "increase" ELSE "decrease",
        shownAmount |-> Abs(MathRound(monthlyDiff))]

\* the overlay and its tooltip are rendered
OverlayShown == BoardShown /\ dndActive # null /\ activeId # null /\ activeGoal # null
TooltipShown == OverlayShown /\ currentOverYear # null /\ Val(currentOverYear) # 0

----------------------------------------------------------------------------
(* The Goals component: fetchGoalsAndAnalyze *)

FetchTask(cause) == Task("fetchGoalsAndAnalyze", "gets", cause, null, null)

\* GoalsCheckRequest with the expenses left out of the contribution
GoalsCheckRequestGross(fetched, fin) ==
    [initial_portfolio |-> SumSeq(fin.assets),
     annual_contribution |-> SumSeq(fin.incomes) * 12,
     years |-> 65,
     goals |-> fetched]

\* the body of the goals_check request
GoalsCheckRequest(fetched, fin) ==
    [initial_portfolio |-> SumSeq(fin.assets),
     annual_contribution |-> (SumSeq(fin.incomes) - SumSeq(fin.expenses)) * 12,
     years |-> 65,
     goals |-> fetched]

\* analysisMap[item.goal_id] = item, for each item in turn
AnalysisMap(items) ==
    [id \in {items[i].goal_id : i \in 1..Len(items)} |->
        LET hits == {i \in 1..Len(items) : items[i].goal_id = id}
        IN items[CHOOSE i \in hits : \A j \in hits : j <= i]]

\* the backend answers the four GETs from its collections
GetsServed(i) ==
    /\ tasks[i].h = "fetchGoalsAndAnalyze" /\ tasks[i].pc = "gets"
    /\ tasks' = [tasks EXCEPT ![i] = Task(@.h, "served", @.cause, null,
                                          Some([goals |-> dbGoals, fin |-> dbFinance]))]
    /\ event' = Ev("getsServed", tasks[i].cause, 0)
    /\ UNCHANGED <<goalsState, dragState, formState, tz, dbFinance, budget, dbGoals, nextId, dndActive, ops, simState, pagesState>>

\* the four responses arrive: lines 269-295
GetsOk(i) ==
    /\ tasks[i].h = "fetchGoalsAndAnalyze" /\ tasks[i].pc = "served"
    /\ LET data == Val(tasks[i].res)
       IN /\ goals' = data.goals
          /\ annualIncome' = SumSeq(data.fin.incomes) * 12
          /\ IF Len(data.goals) > 0
             THEN /\ tasks' = [tasks EXCEPT ![i] =
                        Task(@.h, "check", @.cause,
                             Some(GoalsCheckRequest(data.goals, data.fin)), null)]
                  /\ UNCHANGED loading
             ELSE /\ tasks' = RemoveAt(tasks, i)
                  /\ loading' = FALSE
    /\ event' = Ev("getsOk", tasks[i].cause, 0)
    /\ UNCHANGED <<analysis, error, filterType, dragState, formState,
                   tz, dbFinance, budget, dbGoals, nextId, dndActive, ops, simState, pagesState>>

\* one of the four GETs fails: lines 296-301; the error screen unmounts the board
GetsFail(i) ==
    /\ tasks[i].h = "fetchGoalsAndAnalyze" /\ tasks[i].pc \in {"gets", "served"}
    /\ error' = Some(ErrorMessage)
    /\ loading' = FALSE
    /\ tasks' = RemoveAt(tasks, i)
    /\ dndActive' = null
    /\ event' = Ev("getsFail", tasks[i].cause, 0)
    /\ UNCHANGED <<goals, analysis, annualIncome, filterType, dragState, formState,
                   tz, dbFinance, budget, dbGoals, nextId, ops, simState, pagesState>>

\* the goals_check response arrives: lines 290-294, 300
CheckOk(i) ==
    /\ tasks[i].h = "fetchGoalsAndAnalyze" /\ tasks[i].pc = "check"
    /\ analysis' = AnalysisMap(GoalsCheck(Val(tasks[i].req).goals))
    /\ loading' = FALSE
    /\ tasks' = RemoveAt(tasks, i)
    /\ event' = Ev("checkOk", tasks[i].cause, 0)
    /\ UNCHANGED <<goals, error, annualIncome, filterType, dragState, formState,
                   tz, dbFinance, budget, dbGoals, nextId, dndActive, ops, simState, pagesState>>

\* CheckFail with a catch that only logs
CheckFailSilent(i) ==
    /\ tasks[i].h = "fetchGoalsAndAnalyze" /\ tasks[i].pc = "check"
    /\ loading' = FALSE
    /\ tasks' = RemoveAt(tasks, i)
    /\ event' = Ev("checkFail", tasks[i].cause, 0)
    /\ UNCHANGED <<goals, analysis, error, annualIncome, filterType, dragState, formState,
                   tz, dbFinance, budget, dbGoals, nextId, dndActive, ops, simState,
                   pagesState>>

\* the goals_check request fails: lines 296-301
CheckFail(i) ==
    /\ tasks[i].h = "fetchGoalsAndAnalyze" /\ tasks[i].pc = "check"
    /\ error' = Some(ErrorMessage)
    /\ loading' = FALSE
    /\ tasks' = RemoveAt(tasks, i)
    /\ dndActive' = null
    /\ event' = Ev("checkFail", tasks[i].cause, 0)
    /\ UNCHANGED <<goals, analysis, annualIncome, filterType, dragState, formState,
                   tz, dbFinance, budget, dbGoals, nextId, ops, simState, pagesState>>

----------------------------------------------------------------------------
(* The Goals component: drag and drop *)

\* the pointer is free to press a control of the board
BoardIdle == BoardShown /\ ~isModalOpen /\ dndActive = null

\* useDraggable({id: `goal-${goal.id}`})
DraggableId(g) == <<"goal", g.id>>

\* the droppables the pointer may be over when an event fires, or none
OverTargets == {null} \cup {Some(y) : y \in DropYears}

handleDragStart(g) ==
    /\ BoardIdle /\ g \in Cards
    /\ dndActive' = Some(g.id)
    /\ activeId' = Some(DraggableId(g))
    /\ activeGoal' = Some(g)
    /\ event' = Ev("handleDragStart", g.id, 0)
    /\ UNCHANGED <<goalsState, currentOverYear, formState, tz, dbFinance, budget, dbGoals, nextId, tasks, ops, simState, pagesState>>

\* over.data.current?.year
OverYear(over) == IF over # null THEN Val(over) ELSE 0

\* handleDragOver moving the dragged goal in the list while the pointer hovers
handleDragOverLive(over) ==
    /\ BoardShown /\ dndActive # null
    /\ currentOverYear' = (IF over # null THEN Some(Val(over)) ELSE null)
    /\ goals' = (IF over # null
                 THEN [i \in 1..Len(goals) |->
                         IF goals[i].id = Val(dndActive)
                         THEN [goals[i] EXCEPT !.target_date = Instant(Val(over), 1, 1, 0)]
                         ELSE goals[i]]
                 ELSE goals)
    /\ event' = Ev("handleDragOver", Val(dndActive), IF over # null THEN Val(over) ELSE 0)
    /\ UNCHANGED <<analysis, loading, error, annualIncome, filterType, activeId, activeGoal,
                   formState, tz, dbFinance, budget, dbGoals, nextId, tasks, dndActive, ops,
                   simState, pagesState>>

handleDragOver(over) ==
    /\ BoardShown /\ dndActive # null
    /\ currentOverYear' = (IF over # null THEN Some(OverYear(over)) ELSE null)
    /\ event' = Ev("handleDragOver", Val(dndActive), OverYear(over))
    /\ UNCHANGED <<goalsState, activeId, activeGoal, formState,
                   tz, dbFinance, budget, dbGoals, nextId, tasks, dndActive, ops, simState, pagesState>>

\* UpdatedGoals without the test of the id
RECURSIVE UpdatedGoalsAll(_, _, _, _)
UpdatedGoalsAll(gs, goalId, newYear, off) ==
    IF gs = <<>> THEN <<>>
    ELSE <<[Head(gs) EXCEPT !.target_date = NewYearISO(newYear, off)]>>
         \o UpdatedGoalsAll(Tail(gs), goalId, newYear, off)

\* goals.map(...) of handleDragEnd
RECURSIVE UpdatedGoals(_, _, _, _)
UpdatedGoals(gs, goalId, newYear, off) ==
    IF gs = <<>> THEN <<>>
    ELSE <<IF Head(gs).id = goalId
           THEN [Head(gs) EXCEPT !.target_date = NewYearISO(newYear, off)]
           ELSE Head(gs)>>
         \o UpdatedGoals(Tail(gs), goalId, newYear, off)

\* DropRequest sending the goal as found, with its old target date
DropRequestStale(goalToUpdate, newYear, off) ==
    [id |-> goalToUpdate.id, body |-> goalToUpdate]

\* the body of the PUT of handleDragEnd
DropRequest(goalToUpdate, newYear, off) ==
    [id |-> goalToUpdate.id,
     body |-> [goalToUpdate EXCEPT !.target_date = NewYearISO(newYear, off)]]

\* DropCommits without the return on a missing drop target
DropCommitsAnywhere(goalId, over) == goalId # 0

\* the drop commits: there is a drop target, goalId and newYear are truthy
DropCommits(goalId, over) == over # null /\ goalId # 0 /\ OverYear(over) # 0

handleDragEnd(over) ==
    /\ BoardShown /\ dndActive # null
    /\ activeId' = null /\ activeGoal' = null /\ currentOverYear' = null
    /\ dndActive' = null
    /\ LET goalId == Val(dndActive)
           goalToUpdate == Find(goals, LAMBDA g : g.id = goalId)
       IN /\ event' = Ev("handleDragEnd", goalId, OverYear(over))
          /\ IF DropCommits(goalId, over)
             THEN /\ goals' = UpdatedGoals(goals, goalId, OverYear(over), tz)
                  /\ IF goalToUpdate # null
                     THEN /\ ops < budget
                          /\ tasks' = Append(tasks,
                                Task("handleDragEnd", "put", "drop",
                                     Some(DropRequest(Val(goalToUpdate), OverYear(over), tz)), null))
                          /\ ops' = ops + 1
                     ELSE UNCHANGED <<tasks, ops>>
             ELSE UNCHANGED <<goals, tasks, ops>>
    /\ UNCHANGED <<analysis, loading, error, annualIncome, filterType, formState,
                   tz, dbFinance, budget, dbGoals, nextId, simState, pagesState>>

\* the drag is cancelled (Escape, a resize, the page hidden): the context calls
\* onDragCancel, for which line 487 registers no handler
DragCancel ==
    /\ BoardShown /\ dndActive # null
    /\ dndActive' = null
    /\ event' = Ev("dragCancel", Val(dndActive), 0)
    /\ UNCHANGED <<goalsState, dragState, formState, tz, dbFinance, budget, dbGoals, nextId, tasks, ops, simState, pagesState>>

\* the PUT of a drop succeeds: line 391
DropPutOk(i) ==
    /\ tasks[i].h = "handleDragEnd" /\ tasks[i].pc = "put"
    /\ LET req == Val(tasks[i].req)
       IN /\ HasGoal(dbGoals, req.id)
          /\ dbGoals' = PutGoal(dbGoals, req.id, req.body)
          /\ event' = Ev("dropPutOk", req.id, 0)
    /\ error' = null
    /\ tasks' = Append(RemoveAt(tasks, i), FetchTask("dropOk"))
    /\ UNCHANGED <<goals, analysis, loading, annualIncome, filterType, dragState, formState,
                   tz, dbFinance, budget, nextId, dndActive, ops, simState, pagesState>>

\* DropPutFail with a catch that only logs
DropPutFailSilent(i) ==
    /\ tasks[i].h = "handleDragEnd" /\ tasks[i].pc = "put"
    /\ event' = Ev("dropPutFail", Val(tasks[i].req).id, 0)
    /\ tasks' = RemoveAt(tasks, i)
    /\ UNCHANGED <<goalsState, dragState, formState,
                   tz, dbFinance, budget, dbGoals, nextId, dndActive, ops, simState, pagesState>>

\* the PUT of a drop fails: line 393
DropPutFail(i) ==
    /\ tasks[i].h = "handleDragEnd" /\ tasks[i].pc = "put"
    /\ event' = Ev("dropPutFail", Val(tasks[i].req).id, 0)
    /\ error' = null
    /\ tasks' = Append(RemoveAt(tasks, i), FetchTask("dropFail"))
    /\ UNCHANGED <<goals, analysis, loading, annualIncome, filterType, dragState, formState,
                   tz, dbFinance, budget, dbGoals, nextId, dndActive, ops, simState, pagesState>>

setFilterType(ft) ==
    /\ BoardIdle
    /\ filterType' = ft
    /\ event' = Ev("setFilterType", 0, 0)
    /\ UNCHANGED <<goals, analysis, loading, error, annualIncome, dragState, formState,
                   tz, dbFinance, budget, dbGoals, nextId, tasks, dndActive, ops, simState, pagesState>>

----------------------------------------------------------------------------
(* The Goals component: the goal form, save and delete *)

handleOpenModal ==
    /\ BoardIdle
    /\ editingGoal' = null
    /\ goalName' = ""
    /\ goalAmount' = <<>>
    /\ targetAge' = toString(30)
    /\ activeTab' = "lump_sum"
    /\ isModalOpen' = TRUE
    /\ event' = Ev("handleOpenModal", 0, 0)
    /\ UNCHANGED <<goalsState, dragState, tz, dbFinance, budget, dbGoals, nextId, tasks, dndActive, ops, simState, pagesState>>

\* the age of a goal taken from the UTC year of its target date
GoalAgeUTC(goal, off) == currentAge + (getFullYear(goal.target_date, 0) - currentYear)

\* the age handleEditGoal shows for a goal
GoalAge(goal, off) == currentAge + (getFullYear(goal.target_date, off) - currentYear)

handleEditGoal(goal) ==
    /\ BoardIdle /\ goal \in Cards
    /\ editingGoal' = Some(goal)
    /\ goalName' = goal.name
    /\ goalAmount' = toString(goal.amount)
    /\ targetAge' = toString(GoalAge(goal, tz))
    /\ activeTab' = goal.goal_type
    /\ isModalOpen' = TRUE
    /\ event' = Ev("handleEditGoal", goal.id, 0)
    /\ UNCHANGED <<goalsState, dragState, tz, dbFinance, budget, dbGoals, nextId, tasks, dndActive, ops, simState, pagesState>>

\* the modal is on screen
ModalShown == BoardShown /\ isModalOpen

setGoalName(v) ==
    /\ ModalShown
    /\ goalName' = v
    /\ event' = Ev("setGoalName", 0, 0)
    /\ UNCHANGED <<goalsState, dragState, isModalOpen, editingGoal, goalAmount, targetAge,
                   activeTab, envVarsButEvent, simState, pagesState>>

setGoalAmount(v) ==
    /\ ModalShown
    /\ goalAmount' = v
    /\ event' = Ev("setGoalAmount", 0, 0)
    /\ UNCHANGED <<goalsState, dragState, isModalOpen, editingGoal, goalName, targetAge,
                   activeTab, envVarsButEvent, simState, pagesState>>

setTargetAge(v) ==
    /\ ModalShown
    /\ targetAge' = v
    /\ event' = Ev("setTargetAge", 0, 0)
    /\ UNCHANGED <<goalsState, dragState, isModalOpen, editingGoal, goalName, goalAmount,
                   activeTab, envVarsButEvent, simState, pagesState>>

setActiveTab(v) ==
    /\ ModalShown
    /\ activeTab' = v
    /\ event' = Ev("setActiveTab", 0, 0)
    /\ UNCHANGED <<goalsState, dragState, isModalOpen, editingGoal, goalName, goalAmount,
                   targetAge, envVarsButEvent, simState, pagesState>>

\* the close button of the modal: line 596
closeModal ==
    /\ ModalShown
    /\ isModalOpen' = FALSE
    /\ event' = Ev("closeModal", 0, 0)
    /\ UNCHANGED <<goalsState, dragState, editingGoal, goalName, goalAmount, targetAge,
                   activeTab, envVarsButEvent, simState, pagesState>>

\* the target year handleSaveGoal computes from the age field
TargetYear(age) == currentYear + (parseInt(age) - currentAge)

\* goalData of handleSaveGoal
GoalData(name, amount, age, tab, off) ==
    [name |-> name, amount |-> parseFloat(amount),
     target_date |-> NewYearISO(TargetYear(age), off), goal_type |-> tab]

\* the form is sent as an update
SaveIsUpdate == editingGoal # null /\ Val(editingGoal).id # 0

handleSaveGoal ==
    /\ ModalShown
    /\ event' = Ev("handleSaveGoal", 0, 0)
    /\ IF goalName = "" \/ goalAmount = <<>> \/ targetAge = <<>>
       THEN UNCHANGED <<tasks, ops>>
       ELSE /\ ops < budget
            /\ SaveIsUpdate \/ nextId <= MaxGoals
            /\ ops' = ops + 1
            /\ tasks' = Append(tasks,
                 Task("handleSaveGoal", IF SaveIsUpdate THEN "put" ELSE "post", "save",
                      Some([id |-> IF SaveIsUpdate THEN Val(editingGoal).id ELSE 0,
                            body |-> GoalData(goalName, goalAmount, targetAge, activeTab, tz)]),
                      null))
    /\ UNCHANGED <<goalsState, dragState, formState, tz, dbFinance, budget, dbGoals, nextId, dndActive, simState, pagesState>>

\* the PUT or POST of a save succeeds: lines 337-339
SaveOk(i) ==
    /\ tasks[i].h = "handleSaveGoal"
    /\ LET req == Val(tasks[i].req)
       IN IF tasks[i].pc = "put"
          THEN /\ HasGoal(dbGoals, req.id)
               /\ dbGoals' = PutGoal(dbGoals, req.id, req.body)
               /\ UNCHANGED nextId
          ELSE /\ dbGoals' = PostGoal(dbGoals, nextId, req.body)
               /\ nextId' = nextId + 1
    /\ isModalOpen' = FALSE
    /\ error' = null
    /\ tasks' = Append(RemoveAt(tasks, i), FetchTask("save"))
    /\ goalName' = "" /\ goalAmount' = <<>> /\ editingGoal' = null
    /\ event' = Ev("saveOk", 0, 0)
    /\ UNCHANGED <<goals, analysis, loading, annualIncome, filterType, dragState,
                   targetAge, activeTab, tz, dbFinance, budget, dndActive, ops, simState, pagesState>>

\* the PUT or POST of a save fails: line 340
SaveFail(i) ==
    /\ tasks[i].h = "handleSaveGoal"
    /\ tasks' = RemoveAt(tasks, i)
    /\ event' = Ev("saveFail", 0, 0)
    /\ UNCHANGED <<goalsState, dragState, formState, tz, dbFinance, budget, dbGoals, nextId, dndActive, ops, simState, pagesState>>

handleDeleteGoal(id, confirmed) ==
    /\ BoardIdle /\ \E g \in Cards : g.id = id
    /\ event' = Ev("handleDeleteGoal", id, IF confirmed THEN 1 ELSE 0)
    /\ IF ~confirmed
       THEN UNCHANGED <<tasks, ops>>
       ELSE /\ ops < budget
            /\ ops' = ops + 1
            /\ tasks' = Append(tasks,
                 Task("handleDeleteGoal", "delete", "delete", Some([id |-> id]), null))
    /\ UNCHANGED <<goalsState, dragState, formState, tz, dbFinance, budget, dbGoals, nextId, dndActive, simState, pagesState>>

\* the DELETE succeeds: line 347
DeleteOk(i) ==
    /\ tasks[i].h = "handleDeleteGoal"
    /\ LET req == Val(tasks[i].req)
       IN /\ HasGoal(dbGoals, req.id)
          /\ dbGoals' = DeleteGoal(dbGoals, req.id)
    /\ error' = null
    /\ tasks' = Append(RemoveAt(tasks, i), FetchTask("delete"))
    /\ event' = Ev("deleteOk", 0, 0)
    /\ UNCHANGED <<goals, analysis, loading, annualIncome, filterType, dragState, formState,
                   tz, dbFinance, budget, nextId, dndActive, ops, simState, pagesState>>

\* the DELETE fails: line 348
DeleteFail(i) ==
    /\ tasks[i].h = "handleDeleteGoal"
    /\ tasks' = RemoveAt(tasks, i)
    /\ event' = Ev("deleteFail", 0, 0)
    /\ UNCHANGED <<goalsState, dragState, formState, tz, dbFinance, budget, dbGoals, nextId, dndActive, ops, simState, pagesState>>

----------------------------------------------------------------------------
(* Records of the backend's collections, as its REST interface describes    *)
(* them: a row is the posted body with the id the backend gave it.          *)

HasRecord(db, id) == \E i \in 1..Len(db) : db[i].id = id

\* the id of the next created row
RECURSIVE MaxId(_)
MaxId(db) == IF db = <<>> THEN 0 ELSE Max(Head(db).id, MaxId(Tail(db)))
NewId(db) == MaxId(db) + 1

\* POST /finance/<collection>
PostRecord(db, body) == Append(db, [id |-> NewId(db)] @@ body)

\* PUT /finance/<collection>/:id
PutRecord(db, id, body) ==
    [i \in 1..Len(db) |-> IF db[i].id = id THEN [id |-> id] @@ body ELSE db[i]]

\* DELETE /finance/<collection>/:id
DeleteRecord(db, id) == SelectSeq(db, LAMBDA r : r.id # id)

\* x || 0 on a number
OrZero(v) == IF v = 0 THEN 0 ELSE v

\* JavaScript's truthiness of a number | null state such as editingId
Truthy(o) == o # null /\ Val(o) # 0

----------------------------------------------------------------------------
(* The Assets page *)

StockFund == "Stock/Fund"
CashDeposit == "Cash/Bank Deposit"

categories == <<CashDeposit, "Insurance", StockFund, "Bond", "Real Estate", "Other">>

FormAsset(name, category, value, ticker, shares) ==
    [name |-> name, category |-> category, value |-> value, ticker |-> ticker,
     shares |-> shares]

Asset(id, name, category, value, ticker, shares) ==
    [id |-> id] @@ FormAsset(name, category, value, ticker, shares)

\* the form as useState and resetForm make it
EmptyAsset == FormAsset("", CashDeposit, 0, "", 0)

\* the tickers the preview endpoint knows, and their prices
Tickers == {"AAPL", "TSLA"}
StockPrice(ticker) == IF ticker = "AAPL" THEN 3 ELSE 5

\* GET /finance/stock/preview
StockPreview(ticker, shares) ==
    [ticker |-> ticker, price |-> StockPrice(ticker), currency |-> "USD",
     exchange_rate |-> 30, total_value_twd |-> StockPrice(ticker) * 30 * shares]

\* what the user types and selects in the asset form
AssetNameInputs == {"Fund"}
CategoryInputs == {CashDeposit, StockFund}
TickerInputs == {"", "aapl", "TSLA"}
SharesInputs == {0, 2}
ValueInputs == {100}

\* String.prototype.toUpperCase on the tickers typed
toUpperCase(s) == IF s = "aapl" THEN "AAPL" ELSE s

\* the assets the backend may hold when the page is opened
Asset1 == Asset(1, "Savings", CashDeposit, 300, "", 0)
Asset2 == Asset(2, "Apple", StockFund, 90, "AAPL", 1)
Asset3 == Asset(3, "Wallet", CashDeposit, 20, "", 0)

AssetsShown == page = "assets"

\* the dependencies of the preview effect: line 97
PreviewDeps(na) == <<na.category, na.ticker, na.shares>>

\* clearTimeout with no effect
clearTimeoutNoop(ts, id) == ts

\* clearTimeout: the timer of that id, if it is still pending, never fires
clearTimeout(ts, id) == SelectSeq(ts, LAMBDA t : t.id # id)

\* the id setTimeout returns: one that no pending timer has
FreeTimerId(ts) ==
    CHOOSE n \in 1..(Len(ts) + 1) :
        /\ \A i \in 1..Len(ts) : ts[i].id # n
        /\ \A m \in 1..(n - 1) : \E i \in 1..Len(ts) : ts[i].id = m

\* setTimeout(() => fetchPreview(), 500) of the render that shows na: the
\* callback closes over that render's newAsset
setTimeout(ts, id, na) ==
    Append(ts, [id |-> id, left |-> DebounceTicks, category |-> na.category,
                ticker |-> na.ticker, shares |-> na.shares])

\* setNewAsset(na) and the render that follows: when a dependency of the
\* preview effect changed, its cleanup runs and the effect runs again
setNewAsset(na) ==
    /\ newAsset' = na
    /\ IF PreviewDeps(na) # PreviewDeps(newAsset)
       THEN LET cleared == clearTimeout(timers, timeoutId)
                id == FreeTimerId(cleared)
            IN /\ timers' = setTimeout(cleared, id, na)
               /\ timeoutId' = id
               /\ sinceChange' = 0
               /\ reqsSinceChange' = 0
               /\ burst' = (\E i \in 1..Len(timers) : timers[i].id = timeoutId)
       ELSE UNCHANGED <<timers, timeoutId, sinceChange, reqsSinceChange, burst>>

\* PreviewWanted whatever the shares
PreviewWantedAnyShares(t) == t.category = StockFund /\ t.ticker # ""

\* the condition of fetchPreview on the newAsset its callback closed over
PreviewWanted(t) == t.category = StockFund /\ t.ticker # "" /\ t.shares > 0

PreviewTasks(ts) == {i \in 1..Len(ts) : ts[i].h = "fetchPreview"}

FetchAssetsTask(cause) == Task("fetchAssets", "get", cause, null, null)

\* what an action of the Assets page leaves alone outside the page
notAssets == <<page, goalsPage, simState, liabPage, budgetPage, dashPage, budget>>

\* fetchAssets, lines 55-62: the response
FetchAssetsOk(i) ==
    /\ AssetsShown /\ tasks[i].h = "fetchAssets"
    /\ assets' = dbAssets
    /\ tasks' = RemoveAt(tasks, i)
    /\ event' = Ev("fetchAssetsOk", tasks[i].cause, 0)
    /\ UNCHANGED <<assetForm, assetEditingId, previewData, assetLoading, previewLoading,
                   dbAssets, ops, notAssets>>

FetchAssetsFail(i) ==
    /\ AssetsShown /\ tasks[i].h = "fetchAssets"
    /\ tasks' = RemoveAt(tasks, i)
    /\ event' = Ev("fetchAssetsFail", tasks[i].cause, 0)
    /\ UNCHANGED <<assets, assetForm, assetEditingId, previewData, assetLoading,
                   previewLoading, dbAssets, ops, notAssets>>

\* the onChange handlers of the form: lines 282, 291, 309, 319, 361
setAssetName(v) ==
    /\ AssetsShown
    /\ setNewAsset([newAsset EXCEPT !.name = v])
    /\ event' = Ev("setAssetName", v, 0)
    /\ UNCHANGED <<assets, assetEditingId, previewData, assetLoading, previewLoading,
                   dbAssets, tasks, ops, notAssets>>

setAssetCategory(v) ==
    /\ AssetsShown
    /\ setNewAsset([newAsset EXCEPT !.category = v])
    /\ event' = Ev("setAssetCategory", v, 0)
    /\ UNCHANGED <<assets, assetEditingId, previewData, assetLoading, previewLoading,
                   dbAssets, tasks, ops, notAssets>>

\* the ticker and the shares inputs are rendered for Stock/Fund only: line 299
setAssetTicker(v) ==
    /\ AssetsShown /\ newAsset.category = StockFund
    /\ setNewAsset([newAsset EXCEPT !.ticker = toUpperCase(v)])
    /\ event' = Ev("setAssetTicker", v, 0)
    /\ UNCHANGED <<assets, assetEditingId, previewData, assetLoading, previewLoading,
                   dbAssets, tasks, ops, notAssets>>

setAssetShares(v) ==
    /\ AssetsShown /\ newAsset.category = StockFund
    /\ setNewAsset([newAsset EXCEPT !.shares = v])
    /\ event' = Ev("setAssetShares", v, 0)
    /\ UNCHANGED <<assets, assetEditingId, previewData, assetLoading, previewLoading,
                   dbAssets, tasks, ops, notAssets>>

\* the value input is rendered for the other categories
setAssetValue(v) ==
    /\ AssetsShown /\ newAsset.category # StockFund
    /\ setNewAsset([newAsset EXCEPT !.value = v])
    /\ event' = Ev("setAssetValue", v, 0)
    /\ UNCHANGED <<assets, assetEditingId, previewData, assetLoading, previewLoading,
                   dbAssets, tasks, ops, notAssets>>

\* time passes by one tick; a timer that has expired fires before more passes
Tick ==
    /\ AssetsShown /\ timers # <<>>
    /\ \A i \in 1..Len(timers) : timers[i].left > 0
    /\ timers' = [i \in 1..Len(timers) |-> [timers[i] EXCEPT !.left = @ - 1]]
    /\ sinceChange' = IF sinceChange < DebounceTicks THEN sinceChange + 1 ELSE sinceChange
    /\ event' = Ev("tick", 0, 0)
    /\ UNCHANGED <<assets, newAsset, timeoutId, reqsSinceChange, burst, assetEditingId,
                   previewData, assetLoading, previewLoading, dbAssets, tasks, ops,
                   notAssets>>

\* the timer callback: fetchPreview up to its await, lines 70-76 and 86-88
TimerFires(k) ==
    /\ AssetsShown /\ timers[k].left = 0
    /\ timers' = RemoveAt(timers, k)
    /\ IF PreviewWanted(timers[k])
       THEN /\ Cardinality(PreviewTasks(tasks)) < MaxPreviews
            /\ previewLoading' = TRUE
            /\ tasks' = Append(tasks, Task("fetchPreview", "get", "timer",
                            Some([ticker |-> timers[k].ticker, shares |-> timers[k].shares]),
                            null))
            /\ reqsSinceChange' = reqsSinceChange + 1
            /\ event' = Ev("fetchPreview", timers[k].ticker, timers[k].shares)
            /\ UNCHANGED previewData
       ELSE /\ previewData' = null
            /\ event' = Ev("fetchPreviewSkipped", 0, 0)
            /\ UNCHANGED <<previewLoading, tasks, reqsSinceChange>>
    /\ UNCHANGED <<assets, newAsset, timeoutId, sinceChange, burst, assetEditingId,
                   assetLoading, dbAssets, ops, notAssets>>

\* fetchPreview after its await, with a response put aside when the form no
\* longer holds the ticker and the shares it was asked for
PreviewOkLatest(i) ==
    /\ AssetsShown /\ tasks[i].h = "fetchPreview"
    /\ LET req == Val(tasks[i].req)
           data == StockPreview(req.ticker, req.shares)
       IN /\ req.ticker \in Tickers
          /\ IF req.ticker = newAsset.ticker /\ req.shares = newAsset.shares
             THEN /\ previewData' = Some(data)
                  /\ setNewAsset([newAsset EXCEPT !.value = data.total_value_twd])
             ELSE UNCHANGED <<previewData, assetForm>>
          /\ event' = Ev("previewOk", req, previewData)
    /\ previewLoading' = FALSE
    /\ tasks' = RemoveAt(tasks, i)
    /\ UNCHANGED <<assets, assetEditingId, assetLoading, dbAssets, ops, notAssets>>

\* fetchPreview after its await, lines 77-79 and 83-85; the event keeps the
\* request answered and the preview data replaced
PreviewOk(i) ==
    /\ AssetsShown /\ tasks[i].h = "fetchPreview"
    /\ LET req == Val(tasks[i].req)
           data == StockPreview(req.ticker, req.shares)
       IN /\ req.ticker \in Tickers
          /\ previewData' = Some(data)
          /\ setNewAsset([newAsset EXCEPT !.value = data.total_value_twd])
          /\ event' = Ev("previewOk", req, previewData)
    /\ previewLoading' = FALSE
    /\ tasks' = RemoveAt(tasks, i)
    /\ UNCHANGED <<assets, assetEditingId, assetLoading, dbAssets, ops, notAssets>>

\* fetchPreview after its await failed, lines 80-85
PreviewFail(i) ==
    /\ AssetsShown /\ tasks[i].h = "fetchPreview"
    /\ previewData' = null
    /\ previewLoading' = FALSE
    /\ tasks' = RemoveAt(tasks, i)
    /\ event' = Ev("previewFail", Val(tasks[i].req).ticker, Val(tasks[i].req).shares)
    /\ UNCHANGED <<assets, assetForm, assetEditingId, assetLoading, dbAssets, ops,
                   notAssets>>

\* the submit button does nothing: line 369
SubmitDisabledWhileSaving == assetLoading

SubmitDisabled == assetLoading \/ (newAsset.category = StockFund /\ previewData = null)

\* the inputs marked required hold something: lines 283, 310, 320, 362
AssetFormValid == newAsset.name # "" /\ (newAsset.category = StockFund => newAsset.ticker # "")

\* handleAddOrUpdateAsset up to its await, creating a row also while editing
handleAddOrUpdateAssetPost ==
    /\ AssetsShown /\ ~SubmitDisabled /\ AssetFormValid
    /\ ops < budget
    /\ ops' = ops + 1
    /\ assetLoading' = TRUE
    /\ tasks' = Append(tasks, Task("handleAddOrUpdateAsset", "post", "submit",
                                   Some([id |-> 0, body |-> newAsset]), null))
    /\ event' = Ev("handleAddOrUpdateAsset", assetEditingId, 0)
    /\ UNCHANGED <<assets, assetForm, assetEditingId, previewData, previewLoading,
                   dbAssets, notAssets>>

\* handleAddOrUpdateAsset up to its await, lines 99-107
handleAddOrUpdateAsset ==
    /\ AssetsShown /\ ~SubmitDisabled /\ AssetFormValid
    /\ ops < budget
    /\ ops' = ops + 1
    /\ assetLoading' = TRUE
    /\ tasks' = Append(tasks,
            IF Truthy(assetEditingId)
            THEN Task("handleAddOrUpdateAsset", "put", "submit",
                      Some([id |-> Val(assetEditingId), body |-> newAsset]), null)
            ELSE Task("handleAddOrUpdateAsset", "post", "submit",
                      Some([id |-> 0, body |-> newAsset]), null))
    /\ event' = Ev("handleAddOrUpdateAsset", assetEditingId, 0)
    /\ UNCHANGED <<assets, assetForm, assetEditingId, previewData, previewLoading,
                   dbAssets, notAssets>>

\* resetForm, lines 128-132
resetForm ==
    /\ assetEditingId' = null
    /\ setNewAsset(EmptyAsset)
    /\ previewData' = null

\* handleAddOrUpdateAsset after its await, lines 108-109 and 112-114
AssetSaveOk(i) ==
    /\ AssetsShown /\ tasks[i].h = "handleAddOrUpdateAsset"
    /\ LET req == Val(tasks[i].req)
       IN IF tasks[i].pc = "put"
          THEN /\ HasRecord(dbAssets, req.id)
               /\ dbAssets' = PutRecord(dbAssets, req.id, req.body)
          ELSE /\ Len(dbAssets) < MaxRecords
               /\ dbAssets' = PostRecord(dbAssets, req.body)
    /\ resetForm
    /\ tasks' = Append(RemoveAt(tasks, i), FetchAssetsTask("save"))
    /\ assetLoading' = FALSE
    /\ event' = Ev("assetSaveOk", tasks[i].pc, 0)
    /\ UNCHANGED <<assets, previewLoading, ops, notAssets>>

\* handleAddOrUpdateAsset after its await failed, lines 110-114
AssetSaveFail(i) ==
    /\ AssetsShown /\ tasks[i].h = "handleAddOrUpdateAsset"
    /\ assetLoading' = FALSE
    /\ tasks' = RemoveAt(tasks, i)
    /\ event' = Ev("assetSaveFail", tasks[i].pc, 0)
    /\ UNCHANGED <<assets, assetForm, assetEditingId, previewData, previewLoading,
                   dbAssets, ops, notAssets>>

\* handleEdit, lines 117-126; the rows hold '' and 0 where there is no ticker
handleEdit(asset) ==
    /\ AssetsShown /\ \E i \in 1..Len(assets) : assets[i] = asset
    /\ assetEditingId' = Some(asset.id)
    /\ setNewAsset(FormAsset(asset.name, asset.category, asset.value, asset.ticker,
                             asset.shares))
    /\ event' = Ev("handleEdit", asset.id, 0)
    /\ UNCHANGED <<assets, previewData, assetLoading, previewLoading, dbAssets, tasks,
                   ops, notAssets>>

\* the cancel button of the form, rendered while editing: line 266
cancelEdit ==
    /\ AssetsShown /\ Truthy(assetEditingId)
    /\ resetForm
    /\ event' = Ev("resetForm", 0, 0)
    /\ UNCHANGED <<assets, assetLoading, previewLoading, dbAssets, tasks, ops, notAssets>>

\* handleDelete up to its await, lines 134-137
handleDelete(id, confirmed) ==
    /\ AssetsShown /\ HasRecord(assets, id)
    /\ event' = Ev("handleDelete", id, IF confirmed THEN 1 ELSE 0)
    /\ IF ~confirmed
       THEN UNCHANGED <<tasks, ops>>
       ELSE /\ ops < budget
            /\ ops' = ops + 1
            /\ tasks' = Append(tasks, Task("handleDelete", "delete", "assets",
                                           Some([id |-> id]), null))
    /\ UNCHANGED <<assets, assetForm, assetEditingId, previewData, assetLoading,
                   previewLoading, dbAssets, notAssets>>

\* handleDelete after its await, line 138
AssetDeleteOk(i) ==
    /\ AssetsShown /\ tasks[i].h = "handleDelete"
    /\ HasRecord(dbAssets, Val(tasks[i].req).id)
    /\ dbAssets' = DeleteRecord(dbAssets, Val(tasks[i].req).id)
    /\ tasks' = Append(RemoveAt(tasks, i), FetchAssetsTask("delete"))
    /\ event' = Ev("assetDeleteOk", Val(tasks[i].req).id, 0)
    /\ UNCHANGED <<assets, assetForm, assetEditingId, previewData, assetLoading,
                   previewLoading, ops, notAssets>>

\* handleDelete after its await failed, lines 139-141
AssetDeleteFail(i) ==
    /\ AssetsShown /\ tasks[i].h = "handleDelete"
    /\ tasks' = RemoveAt(tasks, i)
    /\ event' = Ev("assetDeleteFail", Val(tasks[i].req).id, 0)
    /\ UNCHANGED <<assets, assetForm, assetEditingId, previewData, assetLoading,
                   previewLoading, dbAssets, ops, notAssets>>

----------------------------------------------------------------------------
(* Exact fractions in lowest terms, for the arithmetic of the payment *)

\* the greatest common divisor of two naturals, by Euclid's algorithm
gcd[p \in Nat \X Nat] == IF p[2] = 0 THEN p[1] ELSE gcd[<<p[2], p[1] % p[2]>>]
GCD(a, b) == gcd[<<Abs(a), Abs(b)>>]

\* the fraction in lowest terms with a positive denominator
FracNorm(a) ==
    LET g == GCD(a[1], a[2])
        s == IF a[2] < 0 THEN 0 - 1 ELSE 1
    IN <<s * (a[1] \div g), s * (a[2] \div g)>>

FracAdd(a, b) == FracNorm(<<a[1] * b[2] + b[1] * a[2], a[2] * b[2]>>)

\* the product, reduced across before it is multiplied out
fracMul[a \in Int \X Int, b \in Int \X Int] ==
    LET x == FracNorm(<<a[1], b[2]>>)
        y == FracNorm(<<b[1], a[2]>>)
    IN FracNorm(<<x[1] * y[1], x[2] * y[2]>>)
FracMul(a, b) == fracMul[a, b]

FracDiv(a, b) == FracMul(a, <<b[2], b[1]>>)

\* Math.pow(a, k) for a natural k
fracPow[a \in Int \X Int, k \in Nat] ==
    IF k = 0 THEN <<1, 1>> ELSE FracMul(a, fracPow[a, k - 1])
FracPow(a, k) == fracPow[a, k]

----------------------------------------------------------------------------
(* The Liabilities page *)

FormLiability(name, category, amount, rate, start, years, grace) ==
    [name |-> name, category |-> category, amount |-> amount, interest_rate |-> rate,
     start_date |-> start, years |-> years, grace_period_months |-> grace]

\* the form as useState, handleAdd and handleCancelEdit make it
EmptyLiability == FormLiability("", "Mortgage", 0, 0, "", 0, 0)

\* a row of the collection: its term and its start date may be unset, its
\* grace period is a number
Liability(id, name, amount, rate, start, years) ==
    [id |-> id] @@ FormLiability(name, "Mortgage", amount, rate, start, years, 0)

\* the liability collections the backend may hold when the page is opened:
\* terms of a year, of none and of 0 years, at 0, 600 and 1200 percent a year
Liability1 == Liability(1, "Flat", 1200, 600, Some("2026-01-01T00:00:00"), Some(1))
Liability2 == Liability(2, "Car", 600, 0, null, Some(1))
Liability3 == Liability(3, "Card", 500, 1200, null, null)
Liability4 == Liability(4, "Loan", 700, 1200, null, Some(0))
Liability5 == Liability(5, "Boat", 100, 1200, null, Some(1))
InitialLiabilityDbs ==
    {<<>>, <<Liability1>>, <<Liability1, Liability2>>, <<Liability3, Liability4>>,
     <<Liability5, Liability2>>}

\* what the user types into the liability form: the field and its value
LiabilityInputs ==
    {<<"name", "Loan">>, <<"amount", 1200>>, <<"interest_rate", 1200>>, <<"years", 1>>}

\* item.start_date.split('T')[0]
DatePart(s) == IF s = "2026-01-01T00:00:00" THEN "2026-01-01" ELSE s

LiabilitiesShown == page = "liabilities"

\* calculateMonthlyPayment with the term taken for the number of payments
calculateMonthlyPaymentYearly(amount, rate, years) ==
    IF amount = 0 \/ years = null \/ Val(years) = 0 THEN <<0, 1>>
    ELSE IF rate = 0 THEN FracNorm(<<amount, Val(years) * 12>>)
    ELSE LET r == FracNorm(<<rate, 100 * 12>>)
             n == Val(years)
             pow == FracPow(FracAdd(<<1, 1>>, r), n)
         IN FracDiv(FracMul(<<amount, 1>>, FracMul(r, pow)), FracSub(pow, <<1, 1>>))

\* calculateMonthlyPayment, lines 284-290, in exact arithmetic
calculateMonthlyPayment(amount, rate, years) ==
    IF amount = 0 \/ years = null \/ Val(years) = 0 THEN <<0, 1>>
    ELSE IF rate = 0 THEN FracNorm(<<amount, Val(years) * 12>>)
    ELSE LET r == FracNorm(<<rate, 100 * 12>>)
             n == Val(years) * 12
             pow == FracPow(FracAdd(<<1, 1>>, r), n)
         IN FracDiv(FracMul(<<amount, 1>>, FracMul(r, pow)), FracSub(pow, <<1, 1>>))

\* the payment shown with a row: lines 337 and 344
monthlyPayment(item) == calculateMonthlyPayment(item.amount, item.interest_rate, item.years)
PaymentShown(item) == MathRound(monthlyPayment(item))

FetchLiabilitiesTask(cause) == Task("fetchLiabilities", "get", cause, null, null)

\* what an action of the Liabilities page leaves alone outside the page
notLiabilities == <<page, goalsPage, simState, assetsPage, budgetPage, dashPage, budget>>

\* fetchLiabilities, lines 199-206: the response
FetchLiabilitiesOk(i) ==
    /\ LiabilitiesShown /\ tasks[i].h = "fetchLiabilities"
    /\ liabilities' = dbLiabilities
    /\ tasks' = RemoveAt(tasks, i)
    /\ event' = Ev("fetchLiabilitiesOk", tasks[i].cause, 0)
    /\ UNCHANGED <<newLiability, liabLoading, liabEditingId, dbLiabilities, ops,
                   notLiabilities>>

FetchLiabilitiesFail(i) ==
    /\ LiabilitiesShown /\ tasks[i].h = "fetchLiabilities"
    /\ tasks' = RemoveAt(tasks, i)
    /\ event' = Ev("fetchLiabilitiesFail", tasks[i].cause, 0)
    /\ UNCHANGED <<liabilities, newLiability, liabLoading, liabEditingId, dbLiabilities,
                   ops, notLiabilities>>

\* the onChange handlers of the form: lines 384-456
setNewLiability(field, v) ==
    /\ LiabilitiesShown
    /\ newLiability' = [newLiability EXCEPT ![field] = v]
    /\ event' = Ev("setNewLiability", field, v)
    /\ UNCHANGED <<liabilities, liabLoading, liabEditingId, dbLiabilities, tasks, ops,
                   notLiabilities>>

\* the payload of handleAdd, lines 217-221: years || null, start_date || null
LiabilityPayload(nl) ==
    [nl EXCEPT !.years = IF nl.years = 0 THEN null ELSE Some(nl.years),
               !.start_date = IF nl.start_date = "" THEN null ELSE Some(nl.start_date)]

\* handleAdd up to its await, lines 212-227; the submit button is disabled
\* while loading (line 463) and the name is required (line 385)
handleAddLiability ==
    /\ LiabilitiesShown /\ ~liabLoading /\ newLiability.name # ""
    /\ ops < budget
    /\ ops' = ops + 1
    /\ liabLoading' = TRUE
    /\ tasks' = Append(tasks,
            IF Truthy(liabEditingId)
            THEN Task("handleAdd", "put", "submit",
                      Some([id |-> Val(liabEditingId), body |-> LiabilityPayload(newLiability)]),
                      null)
            ELSE Task("handleAdd", "post", "submit",
                      Some([id |-> 0, body |-> LiabilityPayload(newLiability)]), null))
    /\ event' = Ev("handleAdd", liabEditingId, 0)
    /\ UNCHANGED <<liabilities, newLiability, liabEditingId, dbLiabilities, notLiabilities>>

\* handleAdd after its await, lines 229-240 and 243-245
LiabilitySaveOk(i) ==
    /\ LiabilitiesShown /\ tasks[i].h = "handleAdd"
    /\ LET req == Val(tasks[i].req)
       IN IF tasks[i].pc = "put"
          THEN /\ HasRecord(dbLiabilities, req.id)
               /\ dbLiabilities' = PutRecord(dbLiabilities, req.id, req.body)
          ELSE /\ Len(dbLiabilities) < MaxRecords
               /\ dbLiabilities' = PostRecord(dbLiabilities, req.body)
    /\ newLiability' = EmptyLiability
    /\ liabEditingId' = null
    /\ tasks' = Append(RemoveAt(tasks, i), FetchLiabilitiesTask("save"))
    /\ liabLoading' = FALSE
    /\ event' = Ev("liabilitySaveOk", tasks[i].pc, 0)
    /\ UNCHANGED <<liabilities, ops, notLiabilities>>

\* handleAdd after its await failed, lines 241-245
LiabilitySaveFail(i) ==
    /\ LiabilitiesShown /\ tasks[i].h = "handleAdd"
    /\ liabLoading' = FALSE
    /\ tasks' = RemoveAt(tasks, i)
    /\ event' = Ev("liabilitySaveFail", tasks[i].pc, 0)
    /\ UNCHANGED <<liabilities, newLiability, liabEditingId, dbLiabilities, ops,
                   notLiabilities>>

\* handleEdit, lines 247-258
handleEditLiability(item) ==
    /\ LiabilitiesShown /\ \E i \in 1..Len(liabilities) : liabilities[i] = item
    /\ newLiability' =
            FormLiability(item.name, item.category, item.amount, item.interest_rate,
                          IF item.start_date # null THEN DatePart(Val(item.start_date)) ELSE "",
                          IF item.years # null THEN Val(item.years) ELSE 0,
                          OrZero(item.grace_period_months))
    /\ liabEditingId' = Some(item.id)
    /\ event' = Ev("handleEdit", item.id, 0)
    /\ UNCHANGED <<liabilities, liabLoading, dbLiabilities, tasks, ops, notLiabilities>>

\* handleCancelEdit, lines 260-271; its button is rendered while editing
handleCancelEdit ==
    /\ LiabilitiesShown /\ Truthy(liabEditingId)
    /\ newLiability' = EmptyLiability
    /\ liabEditingId' = null
    /\ event' = Ev("handleCancelEdit", 0, 0)
    /\ UNCHANGED <<liabilities, liabLoading, dbLiabilities, tasks, ops, notLiabilities>>

\* handleDelete up to its await, lines 273-276
handleDeleteLiability(id, confirmed) ==
    /\ LiabilitiesShown /\ HasRecord(liabilities, id)
    /\ event' = Ev("handleDelete", id, IF confirmed THEN 1 ELSE 0)
    /\ IF ~confirmed
       THEN UNCHANGED <<tasks, ops>>
       ELSE /\ ops < budget
            /\ ops' = ops + 1
            /\ tasks' = Append(tasks, Task("handleDelete", "delete", "liabilities",
                                           Some([id |-> id]), null))
    /\ UNCHANGED <<liabilities, newLiability, liabLoading, liabEditingId, dbLiabilities,
                   notLiabilities>>

\* handleDelete after its await, line 277
LiabilityDeleteOk(i) ==
    /\ LiabilitiesShown /\ tasks[i].h = "handleDelete"
    /\ HasRecord(dbLiabilities, Val(tasks[i].req).id)
    /\ dbLiabilities' = DeleteRecord(dbLiabilities, Val(tasks[i].req).id)
    /\ tasks' = Append(RemoveAt(tasks, i), FetchLiabilitiesTask("delete"))
    /\ event' = Ev("liabilityDeleteOk", Val(tasks[i].req).id, 0)
    /\ UNCHANGED <<liabilities, newLiability, liabLoading, liabEditingId, ops,
                   notLiabilities>>

\* handleDelete after its await failed, lines 278-280
LiabilityDeleteFail(i) ==
    /\ LiabilitiesShown /\ tasks[i].h = "handleDelete"
    /\ tasks' = RemoveAt(tasks, i)
    /\ event' = Ev("liabilityDeleteFail", Val(tasks[i].req).id, 0)
    /\ UNCHANGED <<liabilities, newLiability, liabLoading, liabEditingId, dbLiabilities,
                   ops, notLiabilities>>

----------------------------------------------------------------------------
(* The Budget page *)

FormItem(name, amount, category, type) ==
    [name |-> name, amount |-> amount, category |-> category, type |-> type]

\* the forms as useState, handleAdd and handleAddGoal make them
EmptyItem == FormItem("", 0, "Salary", "income")
EmptyGoal == [name |-> "", amount |-> 0, target_date |-> null]

\* a row of the income or of the expense collection
Item(id, name, amount, category) ==
    [id |-> id, name |-> name, amount |-> amount, category |-> category]

BudgetDb(incs, exps) == [incomes |-> incs, expenses |-> exps]

\* the income and expense collections the backend may hold when the page is
\* opened
InitialBudgetDbs ==
    {BudgetDb(<<>>, <<>>),
     BudgetDb(<<Item(1, "Pay", 5000, "Salary")>>, <<Item(1, "Rent", 2000, "Housing")>>),
     BudgetDb(<<Item(1, "Pay", 3000, "Salary"), Item(2, "Bonus", 500, "Salary")>>,
              <<Item(1, "Rent", 4000, "Housing")>>)}

\* what the user enters into the two forms: the field and its value; a date
\* typed into the date input is the instant new Date reads it as
ItemInputs == {<<"name", "Gift">>, <<"amount", 100>>, <<"type", "expense">>}
GoalInputs ==
    {<<"name", "Trip">>, <<"amount", 30000>>,
     <<"target_date", Some(Instant(currentYear + 1, 1, 1, 0))>>}

BudgetShown == page = "budget"

totalIncome == SumSeq([i \in 1..Len(incomes) |-> incomes[i].amount])
totalExpense == SumSeq([i \in 1..Len(expenses) |-> expenses[i].amount])
netFlow == totalIncome - totalExpense

\* forecastData with the monthly flow taken for the yearly one
forecastDataMonthly ==
    [i \in 1..ForecastYears |->
        LET year == currentYear + (i - 1)
            annualBaseFlow == netFlow
            yearGoals == SelectSeq(budgetGoals,
                            LAMBDA g : getFullYear(g.target_date, tz) = year)
            goalsAmount == SumSeq([k \in 1..Len(yearGoals) |-> yearGoals[k].amount])
        IN [year |-> toString(year), netFlow |-> annualBaseFlow - goalsAmount,
            baseFlow |-> annualBaseFlow, goalsImpact |-> 0 - goalsAmount]]

\* forecastData, lines 145-161
forecastData ==
    [i \in 1..ForecastYears |->
        LET year == currentYear + (i - 1)
            annualBaseFlow == netFlow * 12
            yearGoals == SelectSeq(budgetGoals,
                            LAMBDA g : getFullYear(g.target_date, tz) = year)
            goalsAmount == SumSeq([k \in 1..Len(yearGoals) |-> yearGoals[k].amount])
        IN [year |-> toString(year), netFlow |-> annualBaseFlow - goalsAmount,
            baseFlow |-> annualBaseFlow, goalsImpact |-> 0 - goalsAmount]]

FetchDataTask(cause) == Task("fetchData", "gets", cause, null, null)

\* what an action of the Budget page leaves alone outside the page
notBudget ==
    <<page, goalsState, dragState, formState, tz, dndActive, dbFinance, simState,
      assetsPage, liabPage, dashPage, budget>>

\* fetchData, lines 75-88: the three responses
FetchDataOk(i) ==
    /\ BudgetShown /\ tasks[i].h = "fetchData"
    /\ incomes' = dbBudget.incomes
    /\ expenses' = dbBudget.expenses
    /\ budgetGoals' = dbGoals
    /\ tasks' = RemoveAt(tasks, i)
    /\ event' = Ev("fetchDataOk", tasks[i].cause, 0)
    /\ UNCHANGED <<newItem, newGoal, budgetLoading, dbBudget, dbGoals, nextId, ops,
                   notBudget>>

FetchDataFail(i) ==
    /\ BudgetShown /\ tasks[i].h = "fetchData"
    /\ tasks' = RemoveAt(tasks, i)
    /\ event' = Ev("fetchDataFail", tasks[i].cause, 0)
    /\ UNCHANGED <<incomes, expenses, budgetGoals, newItem, newGoal, budgetLoading,
                   dbBudget, dbGoals, nextId, ops, notBudget>>

\* the handlers of the item form: lines 210, 217, 231, 242, 253
setNewItem(field, v) ==
    /\ BudgetShown
    /\ newItem' = [newItem EXCEPT ![field] = v]
    /\ event' = Ev("setNewItem", field, v)
    /\ UNCHANGED <<incomes, expenses, budgetGoals, newGoal, budgetLoading, dbBudget,
                   dbGoals, nextId, tasks, ops, notBudget>>

\* the handlers of the goal form: lines 340, 350, 361
setNewGoal(field, v) ==
    /\ BudgetShown
    /\ newGoal' = [newGoal EXCEPT ![field] = v]
    /\ event' = Ev("setNewGoal", field, v)
    /\ UNCHANGED <<incomes, expenses, budgetGoals, newItem, budgetLoading, dbBudget,
                   dbGoals, nextId, tasks, ops, notBudget>>

\* handleAdd up to its await, lines 94-99; the submit button is disabled
\* while loading (line 260) and the name is required (line 232)
handleAddItem ==
    /\ BudgetShown /\ ~budgetLoading /\ newItem.name # ""
    /\ ops < budget
    /\ ops' = ops + 1
    /\ budgetLoading' = TRUE
    /\ tasks' = Append(tasks, Task("handleAdd", "post", newItem.type,
                    Some([body |-> [name |-> newItem.name, amount |-> newItem.amount,
                                    category |-> newItem.category]]), null))
    /\ event' = Ev("handleAdd", newItem.type, 0)
    /\ UNCHANGED <<incomes, expenses, budgetGoals, newItem, newGoal, dbBudget, dbGoals,
                   nextId, notBudget>>

\* handleAdd after its await, leaving the lists as they were fetched
AddItemOkNoRefetch(i) ==
    /\ BudgetShown /\ tasks[i].h = "handleAdd"
    /\ LET body == Val(tasks[i].req).body
       IN IF tasks[i].cause = "income"
          THEN /\ Len(dbBudget.incomes) < MaxRecords
               /\ dbBudget' = [dbBudget EXCEPT !.incomes = PostRecord(@, body)]
          ELSE /\ Len(dbBudget.expenses) < MaxRecords
               /\ dbBudget' = [dbBudget EXCEPT !.expenses = PostRecord(@, body)]
    /\ newItem' = EmptyItem
    /\ tasks' = RemoveAt(tasks, i)
    /\ budgetLoading' = FALSE
    /\ event' = Ev("addItemOk", tasks[i].cause, 0)
    /\ UNCHANGED <<incomes, expenses, budgetGoals, newGoal, dbGoals, nextId, ops,
                   notBudget>>

\* handleAdd after its await, lines 100-101 and 105-107
AddItemOk(i) ==
    /\ BudgetShown /\ tasks[i].h = "handleAdd"
    /\ LET body == Val(tasks[i].req).body
       IN IF tasks[i].cause = "income"
          THEN /\ Len(dbBudget.incomes) < MaxRecords
               /\ dbBudget' = [dbBudget EXCEPT !.incomes = PostRecord(@, body)]
          ELSE /\ Len(dbBudget.expenses) < MaxRecords
               /\ dbBudget' = [dbBudget EXCEPT !.expenses = PostRecord(@, body)]
    /\ newItem' = EmptyItem
    /\ tasks' = Append(RemoveAt(tasks, i), FetchDataTask("add"))
    /\ budgetLoading' = FALSE
    /\ event' = Ev("addItemOk", tasks[i].cause, 0)
    /\ UNCHANGED <<incomes, expenses, budgetGoals, newGoal, dbGoals, nextId, ops,
                   notBudget>>

\* handleAdd after its await failed, lines 102-107
AddItemFail(i) ==
    /\ BudgetShown /\ tasks[i].h = "handleAdd"
    /\ budgetLoading' = FALSE
    /\ tasks' = RemoveAt(tasks, i)
    /\ event' = Ev("addItemFail", tasks[i].cause, 0)
    /\ UNCHANGED <<incomes, expenses, budgetGoals, newItem, newGoal, dbBudget, dbGoals,
                   nextId, ops, notBudget>>

\* handleAddGoal up to its await, lines 110-118; the submit button is
\* disabled while loading (line 372) and the name and the date are required
\* (lines 341, 363)
handleAddGoal ==
    /\ BudgetShown /\ ~budgetLoading /\ newGoal.name # "" /\ newGoal.target_date # null
    /\ ops < budget
    /\ ops' = ops + 1
    /\ budgetLoading' = TRUE
    /\ tasks' = Append(tasks, Task("handleAddGoal", "post", "goal",
                    Some([body |-> [name |-> newGoal.name, amount |-> newGoal.amount,
                                    target_date |-> Val(newGoal.target_date)]]), null))
    /\ event' = Ev("handleAddGoal", 0, 0)
    /\ UNCHANGED <<incomes, expenses, budgetGoals, newItem, newGoal, dbBudget, dbGoals,
                   nextId, notBudget>>

\* handleAddGoal after its await, lines 119-120 and 124-126
AddGoalOk(i) ==
    /\ BudgetShown /\ tasks[i].h = "handleAddGoal"
    /\ nextId <= MaxGoals
    /\ dbGoals' = PostGoal(dbGoals, nextId, Val(tasks[i].req).body)
    /\ nextId' = nextId + 1
    /\ newGoal' = EmptyGoal
    /\ tasks' = Append(RemoveAt(tasks, i), FetchDataTask("addGoal"))
    /\ budgetLoading' = FALSE
    /\ event' = Ev("addGoalOk", 0, 0)
    /\ UNCHANGED <<incomes, expenses, budgetGoals, newItem, dbBudget, ops, notBudget>>

\* handleAddGoal after its await failed, lines 121-126
AddGoalFail(i) ==
    /\ BudgetShown /\ tasks[i].h = "handleAddGoal"
    /\ budgetLoading' = FALSE
    /\ tasks' = RemoveAt(tasks, i)
    /\ event' = Ev("addGoalFail", 0, 0)
    /\ UNCHANGED <<incomes, expenses, budgetGoals, newItem, newGoal, dbBudget, dbGoals,
                   nextId, ops, notBudget>>

\* the rows of the list the trash icon of type is rendered with
RowsOf(type) ==
    IF type = "income" THEN incomes ELSE IF type = "expense" THEN expenses
    ELSE budgetGoals

\* handleDelete up to its await, lines 127-134: the click is not confirmed
handleDeleteItem(id, type) ==
    /\ BudgetShown /\ HasRecord(RowsOf(type), id)
    /\ ops < budget
    /\ ops' = ops + 1
    /\ tasks' = Append(tasks, Task("handleDelete", "delete", type, Some([id |-> id]), null))
    /\ event' = Ev("handleDelete", id, 0)
    /\ UNCHANGED <<incomes, expenses, budgetGoals, newItem, newGoal, budgetLoading,
                   dbBudget, dbGoals, nextId, notBudget>>

\* handleDelete after its await, line 135
DeleteItemOk(i) ==
    /\ BudgetShown /\ tasks[i].h = "handleDelete"
    /\ LET id == Val(tasks[i].req).id
           type == tasks[i].cause
       IN IF type = "income"
          THEN /\ HasRecord(dbBudget.incomes, id)
               /\ dbBudget' = [dbBudget EXCEPT !.incomes = DeleteRecord(@, id)]
               /\ UNCHANGED dbGoals
          ELSE IF type = "expense"
          THEN /\ HasRecord(dbBudget.expenses, id)
               /\ dbBudget' = [dbBudget EXCEPT !.expenses = DeleteRecord(@, id)]
               /\ UNCHANGED dbGoals
          ELSE /\ HasGoal(dbGoals, id)
               /\ dbGoals' = DeleteGoal(dbGoals, id)
               /\ UNCHANGED dbBudget
    /\ tasks' = Append(RemoveAt(tasks, i), FetchDataTask("delete"))
    /\ event' = Ev("deleteItemOk", Val(tasks[i].req).id, tasks[i].cause)
    /\ UNCHANGED <<incomes, expenses, budgetGoals, newItem, newGoal, budgetLoading,
                   nextId, ops, notBudget>>

\* handleDelete after its await failed, lines 136-138
DeleteItemFail(i) ==
    /\ BudgetShown /\ tasks[i].h = "handleDelete"
    /\ tasks' = RemoveAt(tasks, i)
    /\ event' = Ev("deleteItemFail", Val(tasks[i].req).id, tasks[i].cause)
    /\ UNCHANGED <<incomes, expenses, budgetGoals, newItem, newGoal, budgetLoading,
                   dbBudget, dbGoals, nextId, ops, notBudget>>

----------------------------------------------------------------------------
(* The Dashboard page *)

DashboardShown == page = "dashboard"

\* categoryTotal that counts the first asset of the category twice
categoryTotalSeeded(categoryAssets) ==
    IF categoryAssets = <<>> THEN 0
    ELSE categoryAssets[1].value
         + SumSeq([i \in 1..Len(categoryAssets) |-> categoryAssets[i].value])

\* categoryTotal of the Assets page, line 201
categoryTotal(categoryAssets) ==
    SumSeq([i \in 1..Len(categoryAssets) |-> categoryAssets[i].value])

\* the order the categories are listed in: line 197
order == <<"Real Estate", CashDeposit, "Insurance", StockFund, "Bond", "Other">>

\* the grouping of lines 188-199: the categories that have assets, in that
\* order, each with its assets in the order of the list
CategoryGroups(list) ==
    LET groups == [k \in 1..Len(order) |->
                     [category |-> order[k],
                      categoryAssets |-> SelectSeq(list, LAMBDA a : a.category = order[k])]]
    IN SelectSeq(groups, LAMBDA g : g.categoryAssets # <<>>)

\* the total shown with a category: line 210
CategoryTotalShown(g) == MathRound(<<categoryTotal(g.categoryAssets), 1>>)

\* totalAssets of the Dashboard, line 29, and the figure shown, line 71
totalAssets == SumSeq([i \in 1..Len(dashAssets) |-> dashAssets[i].value])
totalLiabilities == SumSeq([i \in 1..Len(dashLiabilities) |-> dashLiabilities[i].amount])
netWorth == totalAssets - totalLiabilities
TotalAssetsShown == MathRound(<<totalAssets, 1>>)

\* totalAssets of the Dashboard that draws the route, and the figure shown
totalAssetsRoute == SumSeq([i \in 1..Len(dashAssets) |-> OrZero(dashAssets[i].value)])
TotalAssetsRouteShown == MathRound(<<totalAssetsRoute, 1>>)

\* what an action of the Dashboard leaves alone outside the page
notDashboard == <<page, goalsPage, simState, assetsPage, liabPage, budgetPage, budget, ops>>

\* fetchData of the mount effect, lines 12-25: the responses
DashFetchOk(i) ==
    /\ DashboardShown /\ tasks[i].h = "fetchData"
    /\ dashAssets' = dbAssets
    /\ dashLiabilities' = dbLiabilities
    /\ dashLoading' = FALSE
    /\ tasks' = RemoveAt(tasks, i)
    /\ event' = Ev("dashFetchOk", 0, 0)
    /\ UNCHANGED notDashboard

DashFetchFail(i) ==
    /\ DashboardShown /\ tasks[i].h = "fetchData"
    /\ dashLoading' = FALSE
    /\ tasks' = RemoveAt(tasks, i)
    /\ event' = Ev("dashFetchFail", 0, 0)
    /\ UNCHANGED <<dashAssets, dashLiabilities, notDashboard>>

----------------------------------------------------------------------------
(* The pages before they are opened, and as their mount effects leave them *)

AssetsIdle ==
    /\ assets = <<>> /\ newAsset = EmptyAsset /\ assetEditingId = null
    /\ previewData = null /\ assetLoading = FALSE /\ previewLoading = FALSE
    /\ timers = <<>> /\ timeoutId = 0 /\ sinceChange = 0 /\ reqsSinceChange = 0
    /\ burst = FALSE

LiabilitiesIdle ==
    /\ liabilities = <<>> /\ newLiability = EmptyLiability
    /\ liabLoading = FALSE /\ liabEditingId = null

BudgetIdle ==
    /\ incomes = <<>> /\ expenses = <<>> /\ budgetGoals = <<>>
    /\ newItem = EmptyItem /\ newGoal = EmptyGoal /\ budgetLoading = FALSE

DashboardIdle == dashAssets = <<>> /\ dashLiabilities = <<>> /\ dashLoading = TRUE

\* the backend's collections that only the pages not opened read
NoRecords == dbAssets = <<>> /\ dbLiabilities = <<>> /\ dbBudget = BudgetDb(<<>>, <<>>)

\* the Goals or the Simulation page is the one opened
PagesIdle ==
    /\ AssetsIdle /\ LiabilitiesIdle /\ BudgetIdle /\ DashboardIdle /\ NoRecords

\* the Goals component while another page is the one opened
GoalsIdle ==
    /\ goals = <<>>
    /\ analysis = AnalysisMap(<<>>)
    /\ loading = TRUE
    /\ error = null
    /\ annualIncome = 0
    /\ filterType = "all"
    /\ activeId = null /\ activeGoal = null /\ currentOverYear = null
    /\ isModalOpen = FALSE /\ editingGoal = null
    /\ goalName = "" /\ goalAmount = <<>> /\ targetAge = toString(30)
    /\ activeTab = "lump_sum"
    /\ dndActive = null
    /\ dbFinance = Finance1

\* the Assets page after its mount: fetchAssets is awaiting its response
\* (lines 64-66) and the preview effect has started its timer (lines 92-94)
AssetsMounted ==
    /\ assets = <<>> /\ newAsset = EmptyAsset /\ assetEditingId = null
    /\ previewData = null /\ assetLoading = FALSE /\ previewLoading = FALSE
    /\ timers = setTimeout(<<>>, 1, EmptyAsset) /\ timeoutId = 1
    /\ sinceChange = 0 /\ reqsSinceChange = 0 /\ burst = FALSE
    /\ tasks = <<FetchAssetsTask("mount")>>
    /\ event = Ev("mount", 0, 0)
    /\ ops = 0

\* the Liabilities page after its mount, lines 208-210
LiabilitiesMounted ==
    /\ LiabilitiesIdle
    /\ tasks = <<FetchLiabilitiesTask("mount")>>
    /\ event = Ev("mount", 0, 0)
    /\ ops = 0

\* the Budget page after its mount, lines 90-92
BudgetMounted ==
    /\ BudgetIdle
    /\ tasks = <<FetchDataTask("mount")>>
    /\ event = Ev("mount", 0, 0)
    /\ ops = 0

\* the Dashboard after its mount, lines 11-27
DashboardMounted ==
    /\ DashboardIdle
    /\ tasks = <<FetchDataTask("mount")>>
    /\ event = Ev("mount", 0, 0)
    /\ ops = 0


----------------------------------------------------------------------------
(* The Goals board *)

GoalsInit ==
    /\ goals = <<>>
    /\ analysis = AnalysisMap(<<>>)
    /\ loading = TRUE
    /\ error = null
    /\ annualIncome = 0
    /\ filterType = "all"
    /\ activeId = null /\ activeGoal = null /\ currentOverYear = null
    /\ isModalOpen = FALSE /\ editingGoal = null
    /\ goalName = "" /\ goalAmount = <<>> /\ targetAge = toString(30)
    /\ activeTab = "lump_sum"
    /\ dndActive = null
    \* the mount effect has called fetchGoalsAndAnalyze: lines 254-256
    /\ tasks = <<FetchTask("mount")>>
    /\ event = Ev("mount", 0, 0)
    /\ ops = 0

\* useState of params, lines 8-14
InitialParams ==
    [initial_portfolio |-> 100000, annual_contribution |-> 10000, years |-> 30,
     iterations |-> 1000, time_unit |-> "month"]

SimIdle ==
    /\ results = null
    /\ simLoading = FALSE
    /\ simTasks = <<>>
    /\ params = InitialParams
    /\ fillTasks = <<>>
    /\ fills = 0

Init ==
    /\ GoalsInit
    /\ tz \in TimeZones
    /\ dbGoals \in InitialDbs
    /\ nextId = Len(dbGoals) + 1
    /\ dbFinance = Finance1
    /\ budget = MaxOps
    /\ SimIdle
    /\ page = "goals"
    /\ PagesIdle

\* the page opened on two goals, for the behaviours of overlapping requests
InitRace ==
    /\ GoalsInit
    /\ tz \in TimeZones
    /\ dbGoals = <<Goal1, Goal2>>
    /\ nextId = Len(dbGoals) + 1
    /\ dbFinance = Finance1
    /\ budget = MaxOps + 1
    /\ SimIdle
    /\ page = "goals"
    /\ PagesIdle

\* a response to a request of the board arrives, or the request fails
BoardAsync ==
    \E i \in 1..Len(tasks) :
        \/ GetsServed(i) \/ GetsOk(i) \/ GetsFail(i) \/ CheckOk(i) \/ CheckFail(i)
        \/ DropPutOk(i) \/ DropPutFail(i)
        \/ DeleteOk(i) \/ DeleteFail(i)

\* a response to a request of the form arrives, or the request fails
FormAsync == \E i \in 1..Len(tasks) : SaveOk(i) \/ SaveFail(i)

\* the user works on the board
Next ==
    \/ BoardAsync
    \/ \E g \in Cards : handleDragStart(g)
    \/ \E over \in OverTargets : handleDragOver(over) \/ handleDragEnd(over)
    \/ DragCancel
    \/ \E id \in GoalIds : handleDeleteGoal(id, TRUE)

\* the slot the pointer is dropped on when the drag itself is not the subject
FarSlot == Some(currentYear + MaxDragSpan)

\* the user adds, edits, deletes and drops goals
NextForm ==
    \/ BoardAsync
    \/ FormAsync
    \/ \E g \in Cards : handleEditGoal(g) \/ handleDragStart(g)
    \/ handleDragEnd(FarSlot)
    \/ handleOpenModal
    \/ \E v \in NameInputs : setGoalName(v)
    \/ \E v \in AmountInputs : setGoalAmount(v)
    \/ handleSaveGoal
    \/ \E id \in GoalIds, confirmed \in BOOLEAN : handleDeleteGoal(id, confirmed)

\* the user drops and deletes goals while earlier requests are in flight
NextRace ==
    \/ BoardAsync
    \/ \E g \in Cards : handleDragStart(g)
    \/ handleDragEnd(FarSlot)
    \/ \E id \in GoalIds : handleDeleteGoal(id, TRUE)

Spec == Init /\ [][Next]_vars
SpecRace == InitRace /\ [][NextRace]_vars
SpecForm == Init /\ [][NextForm]_vars

\* the user drops, saves and deletes goals and every request succeeds
NextSuccess ==
    \/ \E i \in 1..Len(tasks) :
            \/ GetsServed(i) \/ GetsOk(i) \/ CheckOk(i)
            \/ DropPutOk(i) \/ DeleteOk(i) \/ SaveOk(i)
    \/ \E g \in Cards : handleEditGoal(g) \/ handleDragStart(g)
    \/ handleDragEnd(FarSlot)
    \/ handleSaveGoal
    \/ \E id \in GoalIds : handleDeleteGoal(id, TRUE)

SpecSuccess == InitRace /\ [][NextSuccess]_vars

----------------------------------------------------------------------------
(* The Simulation page *)

\* one year of percentiles <<p5, p25, p50, p75, p95>>: ordered ones, strictly or
\* with ties, and two that are out of order
PctRows ==
    {<<1, 2, 4, 7, 9>>, <<1, 1, 1, 1, 1>>, <<1, 1, 4, 4, 9>>, <<2, 4, 4, 7, 7>>,
     <<1, 2, 2, 2, 9>>, <<4, 7, 7, 9, 9>>, <<4, 2, 4, 7, 7>>, <<1, 2, 7, 4, 9>>}

\* the response of POST /simulation/monte_carlo made of the rows of each year
SimResult(rows) ==
    [years |-> [i \in 1..Len(rows) |-> i],
     p5 |-> [i \in 1..Len(rows) |-> rows[i][1]],
     p25 |-> [i \in 1..Len(rows) |-> rows[i][2]],
     p50 |-> [i \in 1..Len(rows) |-> rows[i][3]],
     p75 |-> [i \in 1..Len(rows) |-> rows[i][4]],
     p95 |-> [i \in 1..Len(rows) |-> rows[i][5]]]

SimResults ==
    {SimResult(rows) : rows \in UNION {[1..n -> PctRows] : n \in 0..MaxSimYears}}

\* chartData stacking the percentiles themselves
chartDataCumulative(res) ==
    IF res = null THEN <<>>
    ELSE [index \in 1..Len(Val(res).years) |->
            LET r == Val(res)
            IN [year |-> r.years[index],
                base |-> r.p5[index],
                risk |-> r.p25[index],
                low_growth |-> r.p50[index],
                high_growth |-> r.p75[index],
                max_growth |-> r.p95[index],
                val_p5 |-> r.p5[index], val_p25 |-> r.p25[index],
                val_p50 |-> r.p50[index], val_p75 |-> r.p75[index],
                val_p95 |-> r.p95[index]]]

\* the rows of the fan chart
chartData(res) ==
    IF res = null THEN <<>>
    ELSE [index \in 1..Len(Val(res).years) |->
            LET r == Val(res)
                p5 == r.p5[index]
                p25 == r.p25[index]
                p50 == r.p50[index]
                p75 == r.p75[index]
                p95 == r.p95[index]
            IN [year |-> r.years[index],
                base |-> p5,
                risk |-> p25 - p5,
                low_growth |-> p50 - p25,
                high_growth |-> p75 - p50,
                max_growth |-> p95 - p75,
                val_p5 |-> p5, val_p25 |-> p25, val_p50 |-> p50,
                val_p75 |-> p75, val_p95 |-> p95]]

\* the submit button is disabled while loading
handleRun ==
    /\ ~simLoading
    /\ simLoading' = TRUE
    /\ simTasks' = Append(simTasks, "monte_carlo")
    /\ event' = Ev("handleRun", 0, 0)
    /\ UNCHANGED <<results, simFill, goalsState, dragState, formState, envVarsButEvent,
                   pagesState>>

\* the response arrives: lines 31, 35
RunOk(res) ==
    /\ simTasks # <<>>
    /\ results' = Some(res)
    /\ simLoading' = FALSE
    /\ simTasks' = Tail(simTasks)
    /\ event' = Ev("runOk", 0, 0)
    /\ UNCHANGED <<simFill, goalsState, dragState, formState, envVarsButEvent, pagesState>>

\* a failure that clears the chart
RunFailClears ==
    /\ simTasks # <<>>
    /\ results' = null
    /\ simLoading' = FALSE
    /\ simTasks' = Tail(simTasks)
    /\ event' = Ev("runFail", 0, 0)
    /\ UNCHANGED <<simFill, goalsState, dragState, formState, envVarsButEvent, pagesState>>

\* the request fails: lines 32-35
RunFail ==
    /\ simTasks # <<>>
    /\ simLoading' = FALSE
    /\ simTasks' = Tail(simTasks)
    /\ event' = Ev("runFail", 0, 0)
    /\ UNCHANGED <<results, simFill, goalsState, dragState, formState, envVarsButEvent,
                   pagesState>>

SimulationShown == page = "simulation"

\* what GET /finance/assets, /finance/incomes and /finance/expenses answer: the
\* values or the amounts of the rows, as exact fractions (302.5 and 0.375 of
\* assets, 3000.125 of incomes, 0.125 or 2000 of expenses)
\* the answers are numbered, and an event names an answer by its number
AssetAnswers == <<<<>>, <<<<300, 1>>, <<5, 2>>>>, <<<<1, 8>>, <<1, 4>>>>>>
IncomeAnswers == <<<<>>, <<<<3000, 1>>, <<1, 8>>>>>>
ExpenseAnswers == <<<<<<1, 8>>>>, <<<<2000, 1>>>>>>

\* reduce((sum, x) => sum + x, 0)
RECURSIVE FracSum(_)
FracSum(s) == IF s = <<>> THEN <<0, 1>> ELSE FracAdd(FracSum(SubSeq(s, 1, Len(s) - 1)), s[Len(s)])

\* what the user types into the fields of the form
ParamInputs ==
    {<<"initial_portfolio", 500>>, <<"annual_contribution", 700>>, <<"years", 20>>}

\* the onChange of a field of the form, lines 160, 179, 188, 196
setParams(field, v) ==
    /\ SimulationShown
    /\ params' = [params EXCEPT ![field] = v]
    /\ event' = Ev("setParams", 0, 0)
    /\ UNCHANGED <<results, simLoading, simTasks, fills, fillTasks, goalsState, dragState,
                   formState, envVarsButEvent, pagesState>>

\* a handler suspended at its await with the params of the render it was
\* called in
FillTask(h) == [h |-> h, params |-> params]

\* handleAutoFill up to its await, lines 40-42
handleAutoFill ==
    /\ SimulationShown /\ fills < MaxFills
    /\ fills' = fills + 1
    /\ fillTasks' = Append(fillTasks, FillTask("handleAutoFill"))
    /\ event' = Ev("handleAutoFill", 0, 0)
    /\ UNCHANGED <<results, simLoading, simTasks, params, goalsState, dragState,
                   formState, envVarsButEvent, pagesState>>

\* handleAutoFill after its await, lines 43-44
AutoFillOk(i, a) ==
    /\ SimulationShown /\ fillTasks[i].h = "handleAutoFill"
    /\ LET totalValue == FracSum(AssetAnswers[a])
       IN params' = [fillTasks[i].params EXCEPT
                        !.initial_portfolio = MathRound(totalValue)]
    /\ fillTasks' = RemoveAt(fillTasks, i)
    /\ event' = Ev("autoFillOk", a, 0)
    /\ UNCHANGED <<results, simLoading, simTasks, fills, goalsState, dragState,
                   formState, envVarsButEvent, pagesState>>

\* handleAutoFill after its await failed, lines 45-47
AutoFillFail(i) ==
    /\ SimulationShown /\ fillTasks[i].h = "handleAutoFill"
    /\ fillTasks' = RemoveAt(fillTasks, i)
    /\ event' = Ev("autoFillFail", 0, 0)
    /\ UNCHANGED <<results, simLoading, simTasks, fills, params, goalsState, dragState,
                   formState, envVarsButEvent, pagesState>>

\* handleAutoFillContribution up to its await, lines 50-55
handleAutoFillContribution ==
    /\ SimulationShown /\ fills < MaxFills
    /\ fills' = fills + 1
    /\ fillTasks' = Append(fillTasks, FillTask("handleAutoFillContribution"))
    /\ event' = Ev("handleAutoFillContribution", 0, 0)
    /\ UNCHANGED <<results, simLoading, simTasks, params, goalsState, dragState,
                   formState, envVarsButEvent, pagesState>>

\* handleAutoFillContribution taking the monthly flow for the yearly one
ContributionOkMonthly(i, a, b) ==
    /\ SimulationShown /\ fillTasks[i].h = "handleAutoFillContribution"
    /\ LET annualNet == FracSub(FracSum(IncomeAnswers[a]), FracSum(ExpenseAnswers[b]))
       IN params' = [fillTasks[i].params EXCEPT
                        !.annual_contribution = MathRound(annualNet)]
    /\ fillTasks' = RemoveAt(fillTasks, i)
    /\ event' = Ev("contributionOk", a, b)
    /\ UNCHANGED <<results, simLoading, simTasks, fills, goalsState, dragState,
                   formState, envVarsButEvent, pagesState>>

\* handleAutoFillContribution after both requests of its Promise.all
\* answered, lines 57-61
ContributionOk(i, a, b) ==
    /\ SimulationShown /\ fillTasks[i].h = "handleAutoFillContribution"
    /\ LET income == FracSum(IncomeAnswers[a])
           expense == FracSum(ExpenseAnswers[b])
           annualNet == FracMul(FracSub(income, expense), <<12, 1>>)
       IN params' = [fillTasks[i].params EXCEPT
                        !.annual_contribution = MathRound(annualNet)]
    /\ fillTasks' = RemoveAt(fillTasks, i)
    /\ event' = Ev("contributionOk", a, b)
    /\ UNCHANGED <<results, simLoading, simTasks, fills, goalsState, dragState,
                   formState, envVarsButEvent, pagesState>>

\* one of the two requests failed, lines 62-64
ContributionFail(i) ==
    /\ SimulationShown /\ fillTasks[i].h = "handleAutoFillContribution"
    /\ fillTasks' = RemoveAt(fillTasks, i)
    /\ event' = Ev("contributionFail", 0, 0)
    /\ UNCHANGED <<results, simLoading, simTasks, fills, params, goalsState, dragState,
                   formState, envVarsButEvent, pagesState>>

\* the Simulation page is open, the Goals page is not mounted
InitSim ==
    /\ GoalsInit
    /\ tz \in TimeZones
    /\ dbGoals = <<>>
    /\ nextId = 1
    /\ dbFinance = Finance1
    /\ budget = 0
    /\ SimIdle
    /\ page = "simulation"
    /\ PagesIdle

NextSim ==
    \/ handleRun
    \/ \E res \in SimResults : RunOk(res)
    \/ RunFail

SpecSim == InitSim /\ [][NextSim]_vars

\* the user fills the form by hand and with the two auto-fill buttons
FillAsync ==
    \E i \in 1..Len(fillTasks) :
        \/ \E a \in 1..Len(AssetAnswers) : AutoFillOk(i, a)
        \/ AutoFillFail(i)
        \/ \E a \in 1..Len(IncomeAnswers), b \in 1..Len(ExpenseAnswers) :
                ContributionOk(i, a, b)
        \/ ContributionFail(i)

NextFill ==
    \/ \E in \in ParamInputs : setParams(in[1], in[2])
    \/ handleAutoFill
    \/ handleAutoFillContribution
    \/ FillAsync

SpecFill == InitSim /\ [][NextFill]_vars

----------------------------------------------------------------------------
(* The Goals board at rest: the filters and the drag preview *)

\* a goal whose target year is over
Goal3 == Goal(3, "Car", 20000, Instant(currentYear - 1, 3, 1, 0), "lump_sum", "")

ViewGoalLists == {<<>>, <<Goal1>>, <<Goal1, Goal2>>, <<Goal2, Goal3, Goal1>>}

\* the analysis maps the board may hold: entries for some of the goals
ViewAnalyses ==
    UNION {{[id \in ids |->
               [goal_id |-> id, probability |-> p[id], progress_ratio |-> p[id],
                status |-> IF p[id] < 50 THEN "At Risk" ELSE "On Track"]]
            : p \in [ids -> {49, 50}]}
           : ids \in SUBSET (1..3)}

ViewIncomes == {0, 60000}

\* the slots the pointer may hover over, or none
ViewTargets == {null} \cup {Some(y) : y \in {x \in SlotYears : x <= currentYear + MaxViewSpan}}

\* the board after a fetch has completed
InitView ==
    /\ goals \in ViewGoalLists
    /\ analysis \in ViewAnalyses
    /\ annualIncome \in ViewIncomes
    /\ loading = FALSE
    /\ error = null
    /\ filterType = "all"
    /\ activeId = null /\ activeGoal = null /\ currentOverYear = null
    /\ isModalOpen = FALSE /\ editingGoal = null
    /\ goalName = "" /\ goalAmount = <<>> /\ targetAge = toString(30)
    /\ activeTab = "lump_sum"
    /\ dndActive = null
    /\ tasks = <<>>
    /\ event = Ev("checkOk", "mount", 0)
    /\ ops = 0
    /\ tz \in TimeZones
    /\ dbGoals = goals
    /\ nextId = Len(dbGoals) + 1
    /\ dbFinance = Finance1
    /\ budget = 0
    /\ SimIdle
    /\ page = "goals"
    /\ PagesIdle

NextView ==
    \/ \E ft \in FilterTypes : setFilterType(ft)
    \/ \E g \in Cards : handleDragStart(g)
    \/ \E over \in ViewTargets : handleDragOver(over)
    \/ handleDragEnd(null)
    \/ DragCancel

SpecView == InitView /\ [][NextView]_vars

----------------------------------------------------------------------------
(* The Assets, Liabilities, Budget and Dashboard pages opened *)

\* the Assets page is the one opened, on the asset collection db
InitAssets(db) ==
    /\ page = "assets"
    /\ AssetsMounted
    /\ dbAssets = db
    /\ budget = MaxOps
    /\ GoalsIdle /\ SimIdle /\ LiabilitiesIdle /\ BudgetIdle /\ DashboardIdle
    /\ tz = 8 /\ dbGoals = <<>> /\ nextId = 1
    /\ dbLiabilities = <<>> /\ dbBudget = BudgetDb(<<>>, <<>>)

\* the Liabilities page is the one opened
InitLiabilities ==
    /\ page = "liabilities"
    /\ LiabilitiesMounted
    /\ dbLiabilities \in InitialLiabilityDbs
    /\ budget = MaxOps
    /\ GoalsIdle /\ SimIdle /\ AssetsIdle /\ BudgetIdle /\ DashboardIdle
    /\ tz = 8 /\ dbGoals = <<>> /\ nextId = 1
    /\ dbAssets = <<>> /\ dbBudget = BudgetDb(<<>>, <<>>)

\* the Budget page is the one opened
InitBudget ==
    /\ page = "budget"
    /\ BudgetMounted
    /\ dbBudget \in InitialBudgetDbs
    /\ dbGoals \in InitialDbs
    /\ nextId = Len(dbGoals) + 1
    /\ tz \in TimeZones
    /\ budget = MaxOps
    /\ GoalsIdle /\ SimIdle /\ AssetsIdle /\ LiabilitiesIdle /\ DashboardIdle
    /\ dbAssets = <<>> /\ dbLiabilities = <<>>

\* the asset lists whose totals are shown: up to MaxListed of these rows
ListedAssets ==
    {Asset1, Asset2, Asset3, Asset(4, "Home", "Real Estate", 9000, "", 0),
     Asset(5, "Note", "Bond", 0, "", 0)}

RECURSIVE ListsOf(_, _)
ListsOf(rows, n) ==
    IF n = 0 THEN {<<>>}
    ELSE ListsOf(rows, n - 1)
         \cup {Append(l, r) : l \in {x \in ListsOf(rows, n - 1) : Len(x) = n - 1},
                              r \in rows}

AssetLists ==
    {l \in ListsOf(ListedAssets, MaxListed) :
        \A i, j \in 1..Len(l) : l[i].id = l[j].id => i = j}

\* the Assets page or the Dashboard is the one opened, on any asset list
InitTotals ==
    /\ \/ page = "assets" /\ AssetsMounted /\ DashboardIdle
       \/ page = "dashboard" /\ DashboardMounted /\ AssetsIdle
    /\ dbAssets \in AssetLists
    /\ dbLiabilities \in InitialLiabilityDbs
    /\ budget = 0
    /\ GoalsIdle /\ SimIdle /\ LiabilitiesIdle /\ BudgetIdle
    /\ tz = 8 /\ dbGoals = <<>> /\ nextId = 1
    /\ dbBudget = BudgetDb(<<>>, <<>>)

\* a response to a request of the Assets page arrives, or the request fails
AssetsAsync == \E i \in 1..Len(tasks) : FetchAssetsOk(i) \/ FetchAssetsFail(i)

AssetSaveAsync == \E i \in 1..Len(tasks) : AssetSaveOk(i) \/ AssetSaveFail(i)

PreviewAsync == \E i \in 1..Len(tasks) : PreviewOk(i) \/ PreviewFail(i)

AssetDeleteAsync == \E i \in 1..Len(tasks) : AssetDeleteOk(i) \/ AssetDeleteFail(i)

\* a response to a request of the Liabilities page arrives, or the request fails
LiabilitiesAsync ==
    \E i \in 1..Len(tasks) :
        \/ FetchLiabilitiesOk(i) \/ FetchLiabilitiesFail(i)
        \/ LiabilitySaveOk(i) \/ LiabilitySaveFail(i)

LiabilityDeleteAsync ==
    \E i \in 1..Len(tasks) : LiabilityDeleteOk(i) \/ LiabilityDeleteFail(i)

\* a response to a request of the Budget page arrives, or the request fails
BudgetAsync ==
    \E i \in 1..Len(tasks) :
        \/ FetchDataOk(i) \/ FetchDataFail(i)
        \/ AddGoalOk(i) \/ AddGoalFail(i)

BudgetItemAsync ==
    \E i \in 1..Len(tasks) :
        \/ AddItemOk(i) \/ AddItemFail(i)
        \/ DeleteItemOk(i) \/ DeleteItemFail(i)

DashboardAsync == \E i \in 1..Len(tasks) : DashFetchOk(i) \/ DashFetchFail(i)

\* the user picks the category, the ticker and the shares of the asset form
\* as time passes
NextAssets ==
    \/ AssetsAsync
    \/ PreviewAsync
    \/ \E v \in CategoryInputs : setAssetCategory(v)
    \/ \E v \in TickerInputs : setAssetTicker(v)
    \/ \E v \in SharesInputs : setAssetShares(v)
    \/ \E v \in ValueInputs : setAssetValue(v)
    \/ Tick
    \/ \E k \in 1..Len(timers) : TimerFires(k)

\* of the inputs of a form, those that it cannot be submitted without and the
\* kind of item
KeyInputs(inputs) == {in \in inputs : in[1] \in {"name", "target_date", "type"}}

\* one of the four pages is the one opened
InitCrud ==
    \/ Init /\ tz = 8
    \/ InitAssets(<<Asset1>>)
    \/ InitLiabilities /\ Len(dbLiabilities) <= 1
    \/ /\ InitBudget
       /\ tz = 8 /\ dbGoals = <<Goal1>>
       /\ Len(dbBudget.incomes) = 1

\* the user adds, edits and deletes the rows of one of the pages
NextCrud ==
    \/ BoardAsync
    \/ FormAsync
    \/ \E g \in Cards : handleEditGoal(g)
    \/ handleOpenModal
    \/ \E v \in NameInputs : setGoalName(v)
    \/ \E v \in AmountInputs : setGoalAmount(v)
    \/ handleSaveGoal
    \/ \E id \in GoalIds, confirmed \in BOOLEAN : handleDeleteGoal(id, confirmed)
    \/ AssetsAsync
    \/ AssetSaveAsync
    \/ AssetDeleteAsync
    \/ \E v \in AssetNameInputs : setAssetName(v)
    \/ Tick
    \/ \E k \in 1..Len(timers) : TimerFires(k)
    \/ handleAddOrUpdateAsset
    \/ \E i \in 1..Len(assets) : handleEdit(assets[i])
    \/ cancelEdit
    \/ \E id \in 1..(MaxRecords + 1), confirmed \in BOOLEAN : handleDelete(id, confirmed)
    \/ LiabilitiesAsync
    \/ LiabilityDeleteAsync
    \/ \E in \in KeyInputs(LiabilityInputs) : setNewLiability(in[1], in[2])
    \/ handleAddLiability
    \/ \E i \in 1..Len(liabilities) : handleEditLiability(liabilities[i])
    \/ handleCancelEdit
    \/ \E id \in 1..(MaxRecords + 1), confirmed \in BOOLEAN :
            handleDeleteLiability(id, confirmed)
    \/ BudgetAsync
    \/ BudgetItemAsync
    \/ \E in \in KeyInputs(ItemInputs) : setNewItem(in[1], in[2])
    \/ \E in \in KeyInputs(GoalInputs) : setNewGoal(in[1], in[2])
    \/ handleAddItem
    \/ handleAddGoal
    \/ \E id \in 1..(MaxRecords + 1), type \in {"income", "expense", "goal"} :
            handleDeleteItem(id, type)

\* the user edits a stock asset and saves it
NextAssetForm ==
    \/ AssetsAsync
    \/ AssetSaveAsync
    \/ PreviewAsync
    \/ \E i \in 1..Len(assets) : handleEdit(assets[i])
    \/ cancelEdit
    \/ Tick
    \/ \E k \in 1..Len(timers) : TimerFires(k)
    \/ handleAddOrUpdateAsset

\* the user adds liabilities to those of the backend
NextLiabilities ==
    \/ LiabilitiesAsync
    \/ \E in \in LiabilityInputs : setNewLiability(in[1], in[2])
    \/ handleAddLiability

\* the user adds goals to the budget
NextBudget ==
    \/ BudgetAsync
    \/ \E in \in GoalInputs : setNewGoal(in[1], in[2])
    \/ handleAddGoal

\* the pages fetch the lists they total
NextTotals ==
    \/ \E i \in 1..Len(tasks) : FetchAssetsOk(i) \/ FetchAssetsFail(i)
    \/ DashboardAsync

\* the user edits a stock asset, changes its shares and saves it
NextAssetEdit ==
    \/ \E i \in 1..Len(tasks) : FetchAssetsOk(i)
    \/ AssetSaveAsync
    \/ \E i \in 1..Len(tasks) : PreviewOk(i)
    \/ \E i \in 1..Len(assets) : handleEdit(assets[i])
    \/ \E v \in SharesInputs \ {0} : setAssetShares(v)
    \/ Tick
    \/ \E k \in 1..Len(timers) : TimerFires(k)
    \/ handleAddOrUpdateAsset

SpecAssets == InitAssets(<<>>) /\ [][NextAssets]_vars
SpecAssetEdit == InitAssets(<<Asset2>>) /\ [][NextAssetEdit]_vars
SpecAssetForm == InitAssets(<<Asset2>>) /\ [][NextAssetForm]_vars
SpecCrud == InitCrud /\ [][NextCrud]_vars
SpecLiabilities == InitLiabilities /\ [][NextLiabilities]_vars
SpecBudget == InitBudget /\ [][NextBudget]_vars
SpecTotals == InitTotals /\ [][NextTotals]_vars

----------------------------------------------------------------------------
(* Dropping a goal on the timeline *)

\* the last step was a drop of a goal of the list on a year slot
DropStep == event'.h = "handleDragEnd" /\ event'.y # 0 /\ HasGoal(goals, event'.x)

\* the record g with its target date at midnight of January 1 of year, local time
MovedTo(g, moved, year) ==
    /\ moved = [g EXCEPT !.target_date = moved.target_date]
    /\ Shift(moved.target_date, tz) = Instant(year, 1, 1, 0)

\* C1: a drop of goal g on the slot of year Y keeps the length and the order of
\* the local list, leaves every other goal as it was, and changes of g only the
\* target_date, which becomes January 1 of Y in the time of the browser
DropChangesOnlyTargetDate ==
    [][DropStep =>
         /\ Len(goals') = Len(goals)
         /\ \A i \in 1..Len(goals) :
               IF goals[i].id = event'.x
               THEN MovedTo(goals[i], goals'[i], event'.y)
               ELSE goals'[i] = goals[i]]_vars

\* a goal of a list of two has just been dropped on another year: its date
\* differs from the stored one, the other goal is as stored
DroppedOneOfTwo ==
    /\ event.h = "handleDragEnd" /\ event.y # 0
    /\ Len(goals) = 2 /\ Len(dbGoals) = 2
    /\ \E i, j \in 1..2 :
         /\ i # j
         /\ goals[i].id = event.x
         /\ goals[i].target_date # dbGoals[i].target_date
         /\ getFullYear(goals[i].target_date, tz) = event.y
         /\ goals[j] = dbGoals[j]

\* C2: a drag that ends over no slot changes neither the local list nor the
\* analysis map, and issues no request: no PUT and no refetch
DropOnNothingChangesNothing ==
    [][(event'.h = "handleDragEnd" /\ event'.y = 0) =>
         UNCHANGED <<goals, analysis, tasks, ops, dbGoals>>]_vars

\* a drag has just ended over no slot after hovering, on a board with goals
DroppedOnNothing ==
    /\ event.h = "handleDragEnd" /\ event.y = 0
    /\ HasGoal(goals, event.x)
    /\ goals = dbGoals /\ tasks = <<>>

\* no drag is under way and nothing of a drag is left on screen
DragIdle == activeId = null /\ activeGoal = null /\ currentOverYear = null

\* C3: however a drag ends, by a drop on a slot, a drop on nothing or a
\* cancellation, the drag state is Idle afterwards: activeId, activeGoal and
\* currentOverYear are null once no drag is under way
EndedDragIsIdle == dndActive = null => DragIdle

\* C4: drag start and drag over change only activeId, activeGoal and
\* currentOverYear: the list, the analysis map and the rest of the page are as
\* they were and no request is issued
DragMovesOnlyDragState ==
    [][event'.h \in {"handleDragStart", "handleDragOver"} =>
         UNCHANGED <<goalsState, formState, tasks, ops, dbGoals>>]_vars

\* a dragged goal hovers over a slot of another year, nothing stored has moved
HoveringOverSlot ==
    /\ event.h = "handleDragOver" /\ event.y # 0
    /\ activeGoal # null /\ currentOverYear = Some(event.y)
    /\ getFullYear(Val(activeGoal).target_date, tz) # event.y
    /\ goals = dbGoals /\ tasks = <<>>

\* the requests of handler h in flight
TasksOf(ts, h) == {i \in 1..Len(ts) : ts[i].h = h}

\* the refetches in flight that a successful drop asked for
DropRefetches(ts) ==
    {i \in TasksOf(ts, "fetchGoalsAndAnalyze") : ts[i].cause = "dropOk"}

----------------------------------------------------------------------------
(* The drag preview *)

\* max(1, y - currentYear), written out
YearsFromNow(y) == IF y - currentYear >= 1 THEN y - currentYear ELSE 1

\* C5: while a goal of amount A and target year Y0 is dragged over the slot of
\* year Y1, the preview has oldYears = max(1, Y0 - currentYear), newYears =
\* max(1, Y1 - currentYear), oldMonthly = A / (12 oldYears), newMonthly =
\* A / (12 newYears) and delta = newMonthly - oldMonthly; it shows the rounded
\* size of the delta, labelled an increase when the delta is positive and a
\* decrease otherwise, and shows the delta line only when Y1 differs from Y0
PreviewFormulas ==
    TooltipShown =>
        LET g == Val(activeGoal)
            Y1 == Val(currentOverYear)
            Y0 == getFullYear(g.target_date, tz)
            A == g.amount
            oldYears == YearsFromNow(Y0)
            newYears == YearsFromNow(Y1)
            t == Tooltip(g, Y1, tz)
            dNum == A * oldYears - A * newYears
            dDen == 12 * oldYears * newYears
        IN /\ t.oldYearsLeft = oldYears /\ t.newYearsLeft = newYears
           /\ t.oldMonthly[2] > 0 /\ t.newMonthly[2] > 0 /\ t.monthlyDiff[2] > 0
           /\ t.oldMonthly[1] * 12 * oldYears = A * t.oldMonthly[2]
           /\ t.newMonthly[1] * 12 * newYears = A * t.newMonthly[2]
           /\ t.monthlyDiff[1] * dDen = dNum * t.monthlyDiff[2]
           /\ (t.label = "increase") <=> (dNum > 0)
           /\ (t.label = "decrease") <=> (dNum <= 0)
           /\ t.deltaShown <=> (Y1 # Y0)
           /\ t.shownAmount >= 0
           /\ 2 * Abs(t.shownAmount * dDen - Abs(dNum)) <= dDen

\* a goal due in two years or more hovers over the slot of the current year:
\* the new span is held at one year and the delta is an increase
PreviewOverCurrentYear ==
    /\ TooltipShown
    /\ event.h = "handleDragOver"
    /\ Val(currentOverYear) = currentYear
    /\ getFullYear(Val(activeGoal).target_date, tz) >= currentYear + 2
    /\ LET t == Tooltip(Val(activeGoal), Val(currentOverYear), tz)
       IN t.label = "increase" /\ t.deltaShown /\ t.shownAmount > 0

----------------------------------------------------------------------------
(* The filters *)

\* the probability the board takes for a goal: 0 when the map has no entry
ProbabilityOf(g) == IF g.id \in DOMAIN analysis THEN analysis[g.id].probability ELSE 0

\* C9 as stated: at_risk shows exactly the goals of probability below 50 (0
\* without an entry), high_impact exactly the goals whose amount is more than
\* half the annual income, also when the annual income is 0, all every goal
FiltersAsStated ==
    filteredGoals =
        SelectSeq(goals, LAMBDA g :
            CASE filterType = "at_risk" -> ProbabilityOf(g) < 50
              [] filterType = "high_impact" -> 2 * g.amount > annualIncome
              [] OTHER -> TRUE)

\* C9, amended: at_risk shows exactly the goals of probability below 50, a goal
\* without an analysis entry counted as probability 0; high_impact shows exactly
\* the goals whose amount is more than half the annual income when that income
\* is positive, and no goal when it is not; all shows every goal; the order of
\* the list is kept
FiltersSelect ==
    filteredGoals =
        SelectSeq(goals, LAMBDA g :
            CASE filterType = "at_risk" -> ProbabilityOf(g) < 50
              [] filterType = "high_impact" ->
                    annualIncome > 0 /\ 2 * g.amount > annualIncome
              [] OTHER -> TRUE)

\* without income, the high-impact filter shows none of the goals
HighImpactWithoutIncome ==
    /\ event.h = "setFilterType" /\ filterType = "high_impact"
    /\ annualIncome = 0
    /\ Len(goals) = 3 /\ filteredGoals = <<>>

----------------------------------------------------------------------------
(* The fan chart *)

\* C10: for every year of a result the chart row has base = P5 and the bands
\* P25-P5, P50-P25, P75-P50, P95-P75; when P5 <= P25 <= P50 <= P75 <= P95 the
\* bands are not negative, sum to P95-P5, and the running totals of the stack
\* are P5, P25, P50, P75 and P95
FanChartBands ==
    results # null =>
        LET r == Val(results)
            rows == chartData(results)
        IN /\ Len(rows) = Len(r.years)
           /\ \A i \in 1..Len(r.years) :
                LET d == rows[i]
                IN /\ d.year = r.years[i]
                   /\ d.base = r.p5[i]
                   /\ d.risk = r.p25[i] - r.p5[i]
                   /\ d.low_growth = r.p50[i] - r.p25[i]
                   /\ d.high_growth = r.p75[i] - r.p50[i]
                   /\ d.max_growth = r.p95[i] - r.p75[i]
                   /\ (r.p5[i] <= r.p25[i] /\ r.p25[i] <= r.p50[i]
                         /\ r.p50[i] <= r.p75[i] /\ r.p75[i] <= r.p95[i]) =>
                        /\ d.risk >= 0 /\ d.low_growth >= 0
                        /\ d.high_growth >= 0 /\ d.max_growth >= 0
                        /\ d.risk + d.low_growth + d.high_growth + d.max_growth
                             = r.p95[i] - r.p5[i]
                        /\ d.base + d.risk = r.p25[i]
                        /\ d.base + d.risk + d.low_growth = r.p50[i]
                        /\ d.base + d.risk + d.low_growth + d.high_growth = r.p75[i]
                        /\ d.base + d.risk + d.low_growth + d.high_growth + d.max_growth
                             = r.p95[i]

\* a result of two years is charted, the second year strictly ordered
TwoYearsCharted ==
    /\ event.h = "runOk" /\ results # null /\ ~simLoading
    /\ Len(chartData(results)) = 2
    /\ LET d == chartData(results)[2]
       IN d.base > 0 /\ d.risk > 0 /\ d.low_growth > 0 /\ d.high_growth > 0 /\ d.max_growth > 0

----------------------------------------------------------------------------
(* Refetching *)

\* the refetches in flight
Refetches(ts) == TasksOf(ts, "fetchGoalsAndAnalyze")

\* the refetches in flight that a failed drop asked for
FailRefetches(ts) == {i \in Refetches(ts) : ts[i].cause = "dropFail"}

\* the step delivers the GETs of a refetch that a failed drop asked for
FailRefetchArrives == event'.h = "getsOk" /\ event'.x = "dropFail"

\* the failure of the PUT of a drop starts one refetch
FailedDropRefetches ==
    event'.h = "dropPutFail" =>
        /\ Cardinality(FailRefetches(tasks')) = Cardinality(FailRefetches(tasks)) + 1
        /\ Cardinality(TasksOf(tasks', "handleDragEnd"))
             = Cardinality(TasksOf(tasks, "handleDragEnd")) - 1

\* C7 as stated: a failed PUT of a drop starts a refetch, and when the GETs of
\* that refetch arrive the local list equals the collection of the backend
FailedDropEndsAtBackend ==
    [][/\ FailedDropRefetches
       /\ FailRefetchArrives => goals' = dbGoals']_vars

\* C7, amended: a failed PUT of a drop starts a refetch, the backend answers a
\* refetch with the collection it holds at that moment, and when the answer
\* arrives the local list equals the collection so answered, which the
\* backend may have changed since
FailedDropEndsAtAnswer ==
    [][/\ FailedDropRefetches
       /\ event'.h = "getsServed" =>
             \E i \in Refetches(tasks) :
                /\ tasks[i].pc = "gets" /\ tasks'[i].pc = "served"
                /\ Val(tasks'[i].res).goals = dbGoals
       /\ FailRefetchArrives =>
             \E i \in FailRefetches(tasks) :
                /\ tasks[i].pc = "served"
                /\ goals' = Val(tasks[i].res).goals
                /\ Cardinality({j \in FailRefetches(tasks') : tasks'[j].pc = "served"})
                     < Cardinality({j \in FailRefetches(tasks) : tasks[j].pc = "served"})]_vars

\* the refetch after a failed drop has arrived: the list is the stored one again
FailedDropDiscarded ==
    /\ event.h = "getsOk" /\ event.x = "dropFail"
    /\ goals = <<Goal1, Goal2>> /\ dbGoals = goals
    /\ FailRefetches(tasks) # {}

\* the step delivers the GETs of some refetch
RefetchArrives == event'.h = "getsOk"

\* a change of the stored collection comes with the start of a refetch
ChangeRefetches ==
    dbGoals' # dbGoals =>
        /\ event'.h \in {"saveOk", "deleteOk", "dropPutOk"}
        /\ Cardinality({i \in Refetches(tasks') : tasks'[i].pc = "gets"})
             = Cardinality({i \in Refetches(tasks) : tasks[i].pc = "gets"}) + 1

\* the analysis map after the answer of goals_check to the request req
AnalysisReplaced(req) ==
    /\ DOMAIN analysis' = {req.goals[k].id : k \in 1..Len(req.goals)}
    /\ \A id \in DOMAIN analysis' :
         /\ analysis'[id].goal_id = id
         /\ \E k \in 1..Len(req.goals) : analysis'[id] = GoalsCheck(req.goals)[k]

----------------------------------------------------------------------------
(* The monthly payment of a liability *)

\* r / 12 for the annual rate r of a row, whose interest_rate is r in percent
MonthlyRate(item) == FracNorm(<<item.interest_rate, 1200>>)

\* 1 - (1 + r/12)^(-12n)
Discount(item) ==
    FracSub(<<1, 1>>,
            FracDiv(<<1, 1>>, FracPow(FracAdd(<<1, 1>>, MonthlyRate(item)),
                                      12 * Val(item.years))))

----------------------------------------------------------------------------
(* The asset totals *)

\* the sum of the value field over the assets of list at the indices S
RECURSIVE ValueSum(_, _)
ValueSum(list, S) ==
    IF S = {} THEN 0
    ELSE LET i == CHOOSE x \in S : TRUE
         IN list[i].value + ValueSum(list, S \ {i})

----------------------------------------------------------------------------
(* The asset form: submitting *)

\* C13: the form is submitted only from a state in which no save is in
\* progress and, if the category is Stock/Fund, a preview has resolved
\* (previewData is not null); a preview request that fails leaves previewData
\* null, so the form of a Stock/Fund asset stays disabled
SubmitNeedsPreview ==
    [][/\ event'.h = "handleAddOrUpdateAsset" =>
            /\ ~assetLoading
            /\ newAsset.category = StockFund => previewData # null
       /\ event'.h = "previewFail" /\ newAsset'.category = StockFund =>
            previewData' = null]_vars

\* the preview request for the stock asset being edited has failed while no
\* save is in progress
PreviewFailedWhileEditing ==
    /\ event.h = "previewFail"
    /\ Truthy(assetEditingId) /\ newAsset.category = StockFund
    /\ newAsset.name # "" /\ newAsset.ticker # ""
    /\ previewData = null /\ ~assetLoading /\ ops < budget

----------------------------------------------------------------------------
(* The asset form: the debounce of the preview *)

\* the step changes the category, the ticker or the shares of the form
DepsChange == PreviewDeps(newAsset') # PreviewDeps(newAsset)

\* C14: a change of category, ticker or shares leaves exactly one timer
\* pending, a new one of the full delay that carries the changed values (the
\* timer that was pending is cancelled); at most one timer is ever pending; a
\* preview request is issued only when the delay has elapsed since the last
\* change, it is the first since that change and it carries the ticker and the
\* shares of the form, which are the last ones; and once the timer of the last
\* change has fired on values that want a preview, exactly one request has been
\* issued since that change
DebouncedPreview ==
    [][/\ DepsChange =>
            /\ Len(timers') = 1
            /\ timers'[1].left = DebounceTicks
            /\ <<timers'[1].category, timers'[1].ticker, timers'[1].shares>> =
                    PreviewDeps(newAsset')
       /\ Len(timers') <= 1
       /\ event'.h = "fetchPreview" =>
            /\ sinceChange = DebounceTicks
            /\ reqsSinceChange = 0
            /\ event'.x = newAsset.ticker /\ event'.y = newAsset.shares
            /\ \E i \in PreviewTasks(tasks') :
                    /\ i \notin PreviewTasks(tasks)
                    /\ Val(tasks'[i].req) =
                            [ticker |-> newAsset.ticker, shares |-> newAsset.shares]
       /\ timers' = <<>> /\ PreviewWanted(newAsset') => reqsSinceChange' = 1]_vars

\* the last of a burst of changes, each made while the timer of the one before
\* was pending, has been followed by its one preview request
BurstPreviewedOnce ==
    /\ event.h = "fetchPreview" /\ burst
    /\ reqsSinceChange = 1 /\ timers = <<>>
    /\ newAsset.ticker = "TSLA" /\ newAsset.shares = 2
    /\ event.x = "TSLA" /\ event.y = 2

----------------------------------------------------------------------------
(* The asset form: what the preview does *)

\* C15: when the debounce timer fires, a preview request is issued only if the
\* category is Stock/Fund, the ticker is not empty and shares > 0; otherwise
\* no request is issued and previewData is cleared. When the response arrives
\* previewData is the response and the value of the form its total_value_twd,
\* nothing else of the form changes; when the request fails previewData is
\* cleared and the form, its value included, is unchanged
PreviewSteps ==
    [][/\ event'.h = "fetchPreview" =>
            /\ newAsset.category = StockFund /\ newAsset.ticker # ""
            /\ newAsset.shares > 0
            /\ Len(tasks') = Len(tasks) + 1
       /\ event'.h = "fetchPreviewSkipped" =>
            /\ ~(/\ newAsset.category = StockFund /\ newAsset.ticker # ""
                 /\ newAsset.shares > 0)
            /\ tasks' = tasks
            /\ previewData' = null
       /\ event'.h = "previewOk" =>
            /\ previewData' # null
            /\ Val(previewData').ticker = event'.x.ticker
            /\ newAsset' = [newAsset EXCEPT !.value = Val(previewData').total_value_twd]
       /\ event'.h = "previewFail" =>
            /\ previewData' = null
            /\ newAsset' = newAsset]_vars

\* a preview response has set the value of a form that held another value
ValuePreviewed ==
    /\ event.h = "previewOk"
    /\ previewData # null /\ newAsset.value = Val(previewData).total_value_twd
    /\ newAsset.value > 0 /\ newAsset.category = StockFund

----------------------------------------------------------------------------
(* The asset form: previews that overlap *)

\* the preview requests in flight, oldest first
PreviewsInFlight(ts) == SelectSeq(ts, LAMBDA t : t.h = "fetchPreview")

\* s without its k-th element
Without(s, k) == [i \in 1..(Len(s) - 1) |-> IF i < k THEN s[i] ELSE s[i + 1]]

\* C16: a preview request in flight is neither cancelled nor ignored: only its
\* own response or failure takes it out of flight, whatever the form is changed
\* to and whatever newer requests are issued, and its response sets previewData
\* and the value of the form to its result even if the form no longer holds
\* the ticker and the shares it was asked for
PreviewsNeverCancelled ==
    [][/\ event'.h \notin {"previewOk", "previewFail"} =>
            SubSeq(PreviewsInFlight(tasks'), 1, Len(PreviewsInFlight(tasks))) =
                PreviewsInFlight(tasks)
       /\ event'.h \in {"previewOk", "previewFail"} =>
            \E k \in 1..Len(PreviewsInFlight(tasks)) :
                PreviewsInFlight(tasks') = Without(PreviewsInFlight(tasks), k)
       /\ event'.h = "previewOk" =>
            /\ previewData' # null
            /\ Val(previewData').ticker = event'.x.ticker
            /\ Val(previewData').total_value_twd =
                    Val(previewData').price * Val(previewData').exchange_rate
                        * event'.x.shares
            /\ newAsset'.value = Val(previewData').total_value_twd]_vars

\* two preview requests were in flight, the response of the newer arrived first
\* and the response of the older has replaced it: previewData and the value of
\* the form are the result of the older request, the ticker and the shares of
\* the form those of the newer
StalePreviewShown ==
    /\ event.h = "previewOk"
    /\ PreviewsInFlight(tasks) = <<>> /\ timers = <<>> /\ reqsSinceChange = 1
    /\ event.x.ticker # newAsset.ticker
    /\ event.y # null
    /\ Val(event.y).ticker = newAsset.ticker
    /\ Val(event.y).total_value_twd # Val(previewData).total_value_twd
    /\ Val(previewData).ticker = event.x.ticker
    /\ newAsset.value = Val(previewData).total_value_twd
    /\ newAsset.category = StockFund

----------------------------------------------------------------------------
(* The entity panels: create, update, delete and refetch *)

\* the request a handler has just issued
Issued(ts) == ts[Len(ts)]

\* the step issues one request and nothing else
IssuesOne == Len(tasks') = Len(tasks) + 1 /\ SubSeq(tasks', 1, Len(tasks)) = tasks

\* the step takes one request out of flight and issues a request of handler h
AnsweredThen(h) ==
    /\ Len(tasks') = Len(tasks)
    /\ Issued(tasks').h = h
    /\ \E k \in 1..Len(tasks) : SubSeq(tasks', 1, Len(tasks) - 1) = Without(tasks, k)

\* the step takes one request out of flight and issues none
AnsweredOnly == \E k \in 1..Len(tasks) : tasks' = Without(tasks, k)

\* C17: in the Assets and the Liabilities panels a submit issues a PUT to the
\* editing id exactly when an editing id is set and a POST otherwise, with the
\* form as its body; when the call succeeds the form and the editing id are
\* reset and a refetch of the collection is issued
SubmitCreatesOrUpdates ==
    [][/\ (AssetsShown /\ event'.h = "handleAddOrUpdateAsset") =>
            /\ IssuesOne
            /\ Issued(tasks').pc = (IF assetEditingId # null THEN "put" ELSE "post")
            /\ assetEditingId # null => Val(Issued(tasks').req).id = Val(assetEditingId)
            /\ Val(Issued(tasks').req).body = newAsset
       /\ (LiabilitiesShown /\ event'.h = "handleAdd") =>
            /\ IssuesOne
            /\ Issued(tasks').pc = (IF liabEditingId # null THEN "put" ELSE "post")
            /\ liabEditingId # null => Val(Issued(tasks').req).id = Val(liabEditingId)
            /\ Val(Issued(tasks').req).body.name = newLiability.name
       /\ event'.h = "assetSaveOk" =>
            /\ newAsset' = EmptyAsset /\ assetEditingId' = null
            /\ AnsweredThen("fetchAssets")
       /\ event'.h = "liabilitySaveOk" =>
            /\ newLiability' = EmptyLiability /\ liabEditingId' = null
            /\ AnsweredThen("fetchLiabilities")]_vars

\* the asset of id 1 was edited and renamed, the update succeeded, the form
\* and the editing id are reset and the refetch is in flight
AssetUpdated ==
    /\ event.h = "assetSaveOk" /\ event.x = "put"
    /\ Len(dbAssets) = 1 /\ dbAssets[1].id = 1 /\ dbAssets[1].name = "Fund"
    /\ assets # dbAssets
    /\ newAsset = EmptyAsset /\ assetEditingId = null
    /\ Issued(tasks) = FetchAssetsTask("save")


\* everything but the record of the handler that ran last
butEvent ==
    <<goalsState, dragState, formState, tz, dbGoals, nextId, tasks, dndActive, ops,
      dbFinance, budget, simState, pagesState>>

\* the click on a trash icon; y is 1 when the user confirmed a prompt
DeleteClicked(e) == e.h \in {"handleDelete", "handleDeleteGoal"}

\* the continuations of a delete call that succeeded
DeleteSucceeded(e) ==
    e.h \in {"assetDeleteOk", "liabilityDeleteOk", "deleteItemOk", "deleteOk"}

\* C18: in every entity panel a delete request is issued only after the user
\* confirmed the prompt, a declined prompt issues no request and changes no
\* state, and a successful delete is followed by a refetch
DeleteAfterConfirmation ==
    [][/\ (Len(tasks') > Len(tasks) /\ Issued(tasks').pc = "delete") =>
            DeleteClicked(event') /\ event'.y = 1
       /\ (DeleteClicked(event') /\ event'.y = 0) => UNCHANGED butEvent
       /\ DeleteSucceeded(event') =>
            \/ AnsweredThen("fetchAssets") \/ AnsweredThen("fetchLiabilities")
            \/ AnsweredThen("fetchData") \/ AnsweredThen("fetchGoalsAndAnalyze")]_vars


\* the continuations of a create or an update call that succeeded
SaveSucceeded(e) ==
    e.h \in {"assetSaveOk", "liabilitySaveOk", "addItemOk", "addGoalOk", "saveOk"}

\* the continuations of a mutation call that failed
MutationFailed(e) ==
    e.h \in {"assetSaveFail", "liabilitySaveFail", "addItemFail", "addGoalFail", "saveFail",
             "assetDeleteFail", "liabilityDeleteFail", "deleteItemFail", "deleteFail"}

\* the step issues the refetch of the page shown and no other request
RefetchesPage ==
    AnsweredThen(IF AssetsShown THEN "fetchAssets"
                 ELSE IF LiabilitiesShown THEN "fetchLiabilities"
                 ELSE IF BudgetShown THEN "fetchData" ELSE "fetchGoalsAndAnalyze")

\* C19: the next request of a handler whose create, update or delete call
\* succeeded is the refetch of the collections of its page, issued as the call
\* returns; a handler whose call failed issues no refetch and no other request
MutationThenRefetch ==
    [][/\ (SaveSucceeded(event') \/ DeleteSucceeded(event')) => RefetchesPage
       /\ MutationFailed(event') => AnsweredOnly]_vars

\* C19 as stated: every mutation request is followed by the refetch of the
\* collections of its page, whether the call succeeded or failed
EveryMutationRefetches ==
    [][(SaveSucceeded(event') \/ DeleteSucceeded(event') \/ MutationFailed(event'))
            => RefetchesPage]_vars

\* the create call of an income failed: no request is in flight, the list is
\* the one fetched at mount and the form still holds what was typed
FailedCreateNotRefetched ==
    /\ BudgetShown /\ event.h = "addItemFail"
    /\ tasks = <<>> /\ ops = 1
    /\ ~budgetLoading
    /\ newItem.name # ""
    /\ incomes = dbBudget.incomes

----------------------------------------------------------------------------
(* The Budget page: the forecast *)

\* the sum of the amounts of the rows of list that satisfy Test
AmountSum(list, Test(_)) ==
    LET S == {k \in 1..Len(list) : Test(list[k])}
        sum[T \in SUBSET S] ==
            IF T = {} THEN 0
            ELSE LET k == CHOOSE k \in T : TRUE IN list[k].amount + sum[T \ {k}]
    IN sum[S]

AnyRow(r) == TRUE

\* the year of the i-th row of the forecast
ForecastYear(i) == currentYear + i - 1

\* C20: on the Budget page the net monthly flow is the sum of the income
\* amounts less the sum of the expense amounts; the forecast has 10 years from
\* the current one, and in each baseFlow is 12 times the net monthly flow,
\* goalsImpact is minus the sum of the amounts of the goals whose target year
\* (the year of the target date in the browser's zone) is that year and
\* netFlow is baseFlow plus goalsImpact; with no goals netFlow is baseFlow in
\* every year, and incomes of 5000 with expenses of 2000 give 3000 and 36000
BudgetForecast ==
    BudgetShown =>
        /\ netFlow = AmountSum(incomes, AnyRow) - AmountSum(expenses, AnyRow)
        /\ Len(forecastData) = 10
        /\ \A i \in 1..Len(forecastData) :
            LET row == forecastData[i]
                InYear(g) == getFullYear(g.target_date, tz) = ForecastYear(i)
            IN /\ row.year = toString(ForecastYear(i))
               /\ row.baseFlow = 12 * netFlow
               /\ row.goalsImpact = 0 - AmountSum(budgetGoals, InYear)
               /\ row.netFlow = row.baseFlow + row.goalsImpact
               /\ budgetGoals = <<>> => row.netFlow = row.baseFlow
               /\ (AmountSum(incomes, AnyRow) = 5000 /\ AmountSum(expenses, AnyRow) = 2000) =>
                    netFlow = 3000 /\ row.baseFlow = 36000

\* an income of 5000, an expense of 2000 and a goal of 30000 added on the page
\* for next year are listed: 3000 a month, 36000 in every forecast year, and
\* next year's net flow is 6000
GoalAddedToForecast ==
    /\ BudgetShown /\ event.h = "fetchDataOk" /\ event.x = "addGoal"
    /\ Len(incomes) = 1 /\ incomes[1].amount = 5000
    /\ Len(expenses) = 1 /\ expenses[1].amount = 2000
    /\ Len(budgetGoals) = 1 /\ budgetGoals[1].amount = 30000
    /\ netFlow = 3000
    /\ forecastData[1].netFlow = 36000 /\ forecastData[1].goalsImpact = 0
    /\ forecastData[2].baseFlow = 36000 /\ forecastData[2].goalsImpact = 0 - 30000
    /\ forecastData[2].netFlow = 6000

----------------------------------------------------------------------------
(* The Simulation page: the auto-fill buttons *)

\* the sum of the fractions of s over the product of their denominators
RECURSIVE Total(_)
Total(s) ==
    IF s = <<>> THEN <<0, 1>>
    ELSE LET t == Total(Tail(s))
         IN <<Head(s)[1] * t[2] + t[1] * Head(s)[2], Head(s)[2] * t[2]>>

\* n is the integer nearest to the fraction q, the upper one of two
IsRounded(n, q) == 2 * n * q[2] - q[2] <= 2 * q[1] /\ 2 * q[1] < 2 * n * q[2] + q[2]

\* C21: on the Simulation page the asset auto-fill sets initial_portfolio to
\* the rounded sum of the fetched asset values and the contribution auto-fill
\* sets annual_contribution to the rounded value of 12 times the sum of the
\* fetched income amounts less the sum of the fetched expense amounts; when
\* the fetch fails the parameters are unchanged
AutoFillSets ==
    [][/\ event'.h = "autoFillOk" =>
            IsRounded(params'.initial_portfolio, Total(AssetAnswers[event'.x]))
       /\ event'.h = "contributionOk" =>
            LET i == Total(IncomeAnswers[event'.x])
                e == Total(ExpenseAnswers[event'.y])
            IN IsRounded(params'.annual_contribution,
                         <<12 * (i[1] * e[2] - e[1] * i[2]), i[2] * e[2]>>)
       /\ event'.h \in {"autoFillFail", "contributionFail"} => params' = params]_vars

\* both buttons were used one after the other: assets of 300 and 2.5 gave 303,
\* incomes of 3000.125 with expenses of 2000 gave 12002
BothFilled ==
    /\ event.h \in {"autoFillOk", "contributionOk"}
    /\ fillTasks = <<>> /\ fills = 2
    /\ params.initial_portfolio = 303
    /\ params.annual_contribution = 12002

----------------------------------------------------------------------------
(* The Goals board: the error of fetchGoalsAndAnalyze *)

\* the step calls fetchGoalsAndAnalyze
RunStarts == Cardinality(Refetches(tasks')) > Cardinality(Refetches(tasks))

\* the step is the last of a run of fetchGoalsAndAnalyze
RunEnds == Cardinality(Refetches(tasks')) < Cardinality(Refetches(tasks))

\* a request of fetchGoalsAndAnalyze failed
RunFailed(e) == e.h \in {"getsFail", "checkFail"}

----------------------------------------------------------------------------
(* The timeline *)

\* the slots that render a card of goal g
SlotsOf(g) ==
    {i \in DOMAIN timelineSlots :
        \E k \in 1..Len(slotGoals(timelineSlots[i].year)) :
            slotGoals(timelineSlots[i].year)[k] = g}

YearOf(g) == getFullYear(g.target_date, tz)

\* C23: the timeline has one slot per year from the current age (30) to the
\* maximum age (95), slot i having age 30+i and year currentYear+i; a goal that
\* passes the active filter is rendered in the slot whose year is the year of
\* its target date in the browser's zone and in no other slot, hence in
\* exactly one slot when that year is one of the 66 years of the timeline and
\* in none when it is before the current year or past the maximum age; a goal
\* that does not pass the filter is rendered in no slot
TimelineSlots ==
    /\ Len(timelineSlots) = 66
    /\ \A i \in 0..65 :
        timelineSlots[i + 1].age = 30 + i /\ timelineSlots[i + 1].year = currentYear + i
    /\ \A k \in 1..Len(goals) :
        LET g == goals[k]
        IN /\ SlotsOf(g) \subseteq {i \in DOMAIN timelineSlots : timelineSlots[i].year = YearOf(g)}
           /\ Cardinality(SlotsOf(g)) =
                (IF /\ PassesFilter(g, analysis, annualIncome, filterType)
                    /\ YearOf(g) >= currentYear /\ YearOf(g) <= currentYear + 65
                 THEN 1 ELSE 0)

\* C23 as stated: every goal that passes the active filter is rendered in
\* exactly one slot, the one of its target year
EveryGoalInOneSlot ==
    /\ Len(timelineSlots) = 66
    /\ \A i \in 0..65 :
        timelineSlots[i + 1].age = 30 + i /\ timelineSlots[i + 1].year = currentYear + i
    /\ \A k \in 1..Len(filteredGoals) :
        /\ Cardinality(SlotsOf(filteredGoals[k])) = 1
        /\ \A i \in SlotsOf(filteredGoals[k]) :
                timelineSlots[i].year = YearOf(filteredGoals[k])

\* three goals pass the filter chosen, two have their card in the slot of
\* their year and the one whose target year is over has no card
PastGoalHasNoSlot ==
    /\ event.h = "setFilterType"
    /\ Len(filteredGoals) = 3
    /\ \E k \in 1..3 :
        /\ YearOf(filteredGoals[k]) < currentYear
        /\ SlotsOf(filteredGoals[k]) = {}
        /\ \A j \in (1..3) \ {k} : Cardinality(SlotsOf(filteredGoals[j])) = 1

----------------------------------------------------------------------------
(* The asset form: the preview a submit relies on *)

\* C24: when the form of a Stock/Fund asset is submitted, the preview data and
\* the value of the form are those of the ticker and the shares the form holds
SubmitUsesCurrentPreview ==
    [][(event'.h = "handleAddOrUpdateAsset" /\ newAsset.category = StockFund) =>
            /\ previewData # null
            /\ Val(previewData) = StockPreview(newAsset.ticker, newAsset.shares)
            /\ newAsset.value = Val(previewData).total_value_twd]_vars


\* the step leaves every parameter but field f as it is
OnlyChanges(f) == \A k \in (DOMAIN params) \ {f} : params'[k] = params[k]

\* C25: an auto-fill changes only its own parameter: every other parameter
\* keeps the value the user last entered, also when the user edited a
\* parameter or used the other auto-fill while the fetch was in flight
AutoFillChangesOnlyItsOwn ==
    [][/\ event'.h = "autoFillOk" => OnlyChanges("initial_portfolio")
       /\ event'.h = "contributionOk" => OnlyChanges("annual_contribution")]_vars

----------------------------------------------------------------------------
(* The Goals board: the analysis map and the goal list *)

GoalIdsOf(gs) == {gs[k].id : k \in 1..Len(gs)}

\* C26: when a run of fetchGoalsAndAnalyze completes without error, every
\* entry of the analysis map belongs to a goal of the goal list, also when the
\* last goal was deleted and the fetched list is empty
AnalysisOfListedGoals ==
    [][(RunEnds /\ ~RunFailed(event')) => DOMAIN analysis' \subseteq GoalIdsOf(goals')]_vars

----------------------------------------------------------------------------
(* The Goals board: requests that overlap *)

\* C27: after drops, saves and deletes whose requests all succeed, once no
\* request is in flight the goal list of the board is the goal collection of
\* the backend, in whatever order the answers of overlapping refetches arrive
SettlesAtBackend == tasks = <<>> => goals = dbGoals


----------------------------------------------------------------------------
(* The Simulation page: the loading flag *)

\* C28: on the Simulation page loading is true exactly while a simulation
\* request is in flight, and at most one is in flight at any time; a submit
\* sets loading and issues the request, a response or a failure resets it, and
\* a failed run leaves the results displayed before it unchanged.
LoadingWhileRunning ==
    /\ [](simLoading <=> simTasks # <<>>)
    /\ [](Len(simTasks) <= 1)
    /\ [][/\ event'.h = "handleRun" => ~simLoading /\ simLoading'
          /\ event'.h \in {"runOk", "runFail"} => simLoading /\ ~simLoading'
          /\ event'.h = "runFail" => results' = results]_vars

\* a run failed after one that succeeded, and its results are still displayed
FailedRunKeepsResults ==
    event.h = "runFail" /\ results # null /\ ~simLoading /\ simTasks = <<>>


----------------------------------------------------------------------------
(* The goal form: a goal opened and saved with its age untouched *)

\* the request handleSaveGoal has just issued
SaveIssued == tasks'[Len(tasks')]

\* C29: when a goal opened for editing is saved with the age field as
\* handleEditGoal filled it, the update sent carries January 1, 0 h in the
\* browser's zone, of the year the goal's target date has in that zone: the
\* age shown for the year gives back the year.
EditThenSaveKeepsYear ==
    [][(event'.h = "handleSaveGoal" /\ SaveIsUpdate /\ Len(tasks') = Len(tasks) + 1)
        => LET goal == Val(editingGoal)
               sent == Val(SaveIssued.req)
           IN /\ SaveIssued.pc = "put" /\ sent.id = goal.id
              /\ TargetYear(targetAge) = YearOf(goal)
              /\ Shift(sent.body.target_date, tz) = Instant(YearOf(goal), 1, 1, 0)
              /\ getFullYear(sent.body.target_date, tz) = YearOf(goal)]_vars

\* west of Greenwich a goal dated January 1, 0 h UTC of next year lies in the
\* current year; it has been opened and saved, and the update is in flight
SavedAcrossNewYear ==
    /\ event.h = "handleSaveGoal" /\ tasks # <<>> /\ editingGoal # null
    /\ tz < 0
    /\ Val(editingGoal).target_date = Instant(currentYear + 1, 1, 1, 0)
    /\ tasks[Len(tasks)].pc = "put"
    /\ Val(tasks[Len(tasks)].req).body.target_date = Instant(currentYear, 1, 1, 0 - tz)


----------------------------------------------------------------------------
(* The drag preview: the direction of the change *)

\* C30: while a goal of positive amount and target year Y0 is dragged over the
\* slot of another year Y1, the feedback reports an increase of the burden with
\* a nonzero delta exactly when Y1 is earlier than Y0, and a decrease with a
\* nonzero delta exactly when Y1 is later than Y0, also for years at or before
\* currentYear + 1, where the years left are held at 1.
DeltaFollowsDirection ==
    (TooltipShown /\ Val(activeGoal).amount > 0
        /\ Val(currentOverYear) # YearOf(Val(activeGoal)))
    => LET Y0 == YearOf(Val(activeGoal))
           Y1 == Val(currentOverYear)
           t == Tooltip(Val(activeGoal), Y1, tz)
           nonzero == t.monthlyDiff[1] # 0
       IN /\ (t.deltaShown /\ t.label = "increase" /\ nonzero) <=> (Y1 < Y0)
          /\ (t.deltaShown /\ t.label = "decrease" /\ nonzero) <=> (Y1 > Y0)

============================================================================
